---- MODULE Spec2Model ----
(***************************************************************************)
(* SubNodeSync: the single-instance lock file (pkg/util/filelock.go) and   *)
(* the node instance lifecycle (pkg/node/node.go, pkg/sync/command.go,     *)
(* pkg/sync/context.go, pkg/sync/handlers.go, pkg/transport/mqtt.go).      *)
(*                                                                         *)
(* Processes of one host share one temp directory.  Every file-system call *)
(* of AcquireApplicationLock is one step, so that the calls of different   *)
(* processes interleave.  A file-system call fails only for the reason the *)
(* code branches on (the file is absent, or it is present for an exclusive *)
(* create, or Windows refuses to delete a file another process has open:   *)
(* Go opens files there without FILE_SHARE_DELETE, or something that is    *)
(* not a record of these processes is at the lock path: it cannot be read, *)
(* and it may or may not be removable, like a directory); all processes    *)
(* run as the same user.  A PID is never reused.                           *)
(***************************************************************************)
EXTENDS Integers, Sequences, FiniteSets, TLC

\* ------------------------------------------------------------------ bounds
NumProcs == 3
FirstPid == 9

Procs == 1..NumProcs

\* os.Getpid() of process p: one- and two-digit PIDs.
Getpid(p) == FirstPid + p - 1

\* ------------------------------------------------------- values and helpers
AppName == "svc"
TempDir == "/tmp"
Nil == [nil |-> TRUE]

\* filepath.Join(os.TempDir(), fmt.Sprintf("%s.lock", appName))
GetLockFilePath(appName) == <<TempDir, appName, ".lock">>

DigitChars == <<"0", "1", "2", "3", "4", "5", "6", "7", "8", "9">>

DigitValue(c) == (CHOOSE i \in 1..10 : DigitChars[i] = c) - 1

IsDigit(c) == \E i \in 1..10 : DigitChars[i] = c

RECURSIVE FormatNat(_)
FormatNat(n) ==
    IF n < 10 THEN <<DigitChars[n + 1]>>
    ELSE FormatNat(n \div 10) \o <<DigitChars[(n % 10) + 1]>>

\* fmt.Fprintf(f, "%d", pid): the decimal text of pid.
FormatInt(n) == IF n < 0 THEN <<"-">> \o FormatNat(0 - n) ELSE FormatNat(n)

RECURSIVE DigitsValue(_)
DigitsValue(s) ==
    IF Len(s) = 0 THEN 0
    ELSE 10 * DigitsValue(SubSeq(s, 1, Len(s) - 1)) + DigitValue(s[Len(s)])

\* strconv.Atoi: an optional sign, then one or more decimal digits.
Atoi(s) ==
    LET signed == Len(s) > 0 /\ s[1] \in {"+", "-"}
        digits == IF signed THEN Tail(s) ELSE s
    IN  IF Len(digits) = 0 \/ \E i \in 1..Len(digits) : ~IsDigit(digits[i])
        THEN [ok |-> FALSE, val |-> 0]
        ELSE [ok |-> TRUE,
              val |-> IF signed /\ s[1] = "-" THEN 0 - DigitsValue(digits)
                      ELSE DigitsValue(digits)]

\* ------------------------------------------------------------------- state
VARIABLES
    goos,       \* runtime.GOOS of the build
    alive,      \* alive[p]: process p exists
    pc,         \* pc[p]: position of p inside AcquireApplicationLock
    pidRead,    \* pidRead[p]: the local pid parsed from the record
    lock,       \* lock[p]: the *FileLock p keeps (Nil, or File and Path)
    ret,        \* ret[p]: what the last AcquireApplicationLock of p returned
    isLockedRet, \* what IsLocked returned, if it was the last lock operation
    lockFile,   \* the file at GetLockFilePath(AppName)
    solo,       \* solo[p]: p's Acquire began on a dead owner's record and
                \* no other process has operated on the lock since
    sinceRelease \* a holder called Release and no record was created since

lockVars ==
    <<goos, alive, pc, pidRead, lock, ret, isLockedRet, lockFile, solo,
      sinceRelease>>

NoFile == [exists |-> FALSE]
File(ino, content) ==
    [exists |-> TRUE, ino |-> ino, content |-> content,
     readable |-> TRUE, removable |-> TRUE]

\* Something at the lock path that os.Stat finds and os.ReadFile fails on (a
\* directory, a file without read permission); os.Remove succeeds on it or
\* not (a directory that is not empty).
Unreadable(removable) ==
    [exists |-> TRUE, ino |-> 0, content |-> <<>>,
     readable |-> FALSE, removable |-> removable]

\* A file of unparsable content that no process of the model created.
Garbage == File(0, <<"p", "i", "d">>)

None == [op |-> "none"]
AcquireOk == [op |-> "Acquire", ok |-> TRUE]
AcquireBusy == [op |-> "Acquire", ok |-> FALSE]
IsLockedRet(locked, pid) == [op |-> "IsLocked", locked |-> locked, pid |-> pid]

\* syscall.Kill(pid, 0) == nil: a process with this PID exists.
KillZeroOk(pid) == \E p \in Procs : Getpid(p) = pid /\ alive[p]

IsProcessRunningAlways(pid) == pid > 0

IsProcessRunning(pid) ==
    IF pid <= 0 THEN FALSE
    ELSE IF goos # "windows" THEN KillZeroOk(pid)
    ELSE TRUE

InAcquire(p) == pc[p] \in {"read", "probe", "remove", "create", "write"}

Holds(p) == alive[p] /\ lock[p] # Nil /\ lock[p].File = "open"

\* p has the file at the lock path open: it created it and has not closed it.
HasOpen(p) ==
    /\ alive[p]
    /\ lockFile.exists /\ lockFile.ino = p
    /\ (pc[p] = "write" \/ (lock[p] # Nil /\ lock[p].File = "open"))

\* os.Remove(lockPath) called by p, the error ignored: the file at the path
\* afterwards.
OsRemove(p) ==
    IF goos = "windows" /\ \E q \in Procs \ {p} : HasOpen(q)
    THEN lockFile
    ELSE IF lockFile.exists /\ ~lockFile.removable THEN lockFile
    ELSE NoFile

\* The record is the one a terminated process left behind.
StaleRecord ==
    /\ lockFile.exists
    /\ Atoi(lockFile.content).ok
    /\ \E d \in Procs : Getpid(d) = Atoi(lockFile.content).val /\ ~alive[d]

\* A step of p on the lock ends the undisturbed run of every other process.
Disturb(p) == [q \in Procs |-> IF q = p THEN solo[q] ELSE FALSE]

LockInit ==
    /\ goos \in {"linux", "windows"}
    /\ alive = [p \in Procs |-> TRUE]
    /\ pc = [p \in Procs |-> "idle"]
    /\ pidRead = [p \in Procs |-> 0]
    /\ lock = [p \in Procs |-> Nil]
    /\ ret = [p \in Procs |-> None]
    /\ isLockedRet = None
    /\ lockFile = NoFile
    /\ solo = [p \in Procs |-> FALSE]
    /\ sinceRelease = FALSE

\* The lock path as a process may find it at its start: nothing, or
\* something left there that is not a record of a process of the model.
LeftBehind == {NoFile, Garbage, Unreadable(TRUE), Unreadable(FALSE)}

ProbeInit ==
    /\ goos \in {"linux", "windows"}
    /\ alive = [p \in Procs |-> TRUE]
    /\ pc = [p \in Procs |-> "idle"]
    /\ pidRead = [p \in Procs |-> 0]
    /\ lock = [p \in Procs |-> Nil]
    /\ ret = [p \in Procs |-> None]
    /\ isLockedRet = None
    /\ lockFile \in LeftBehind
    /\ solo = [p \in Procs |-> FALSE]
    /\ sinceRelease = FALSE

\* ------------------------------------------- AcquireApplicationLock, by step
\* os.Stat(lockPath)
AcquireStat(p) ==
    /\ alive[p] /\ pc[p] = "idle" /\ ~Holds(p)
    /\ pc' = [pc EXCEPT ![p] = IF lockFile.exists THEN "read" ELSE "create"]
    /\ ret' = [ret EXCEPT ![p] = None]
    /\ solo' = [q \in Procs |-> IF q = p THEN StaleRecord ELSE FALSE]
    /\ isLockedRet' = None
    /\ UNCHANGED <<goos, alive, pidRead, lock, lockFile, sinceRelease>>

\* os.ReadFile(lockPath) and strconv.Atoi
AcquireRead(p) ==
    /\ alive[p] /\ pc[p] = "read"
    /\ LET conv == IF lockFile.exists /\ lockFile.readable
                   THEN Atoi(lockFile.content)
                   ELSE [ok |-> FALSE, val |-> 0]
       IN  /\ pc' = [pc EXCEPT ![p] = IF conv.ok THEN "probe" ELSE "remove"]
           /\ pidRead' = [pidRead EXCEPT ![p] = conv.val]
    /\ solo' = Disturb(p)
    /\ isLockedRet' = None
    /\ UNCHANGED <<goos, alive, lock, ret, lockFile, sinceRelease>>

\* isProcessRunning(pid): a running owner makes the call return nil
AcquireProbe(p) ==
    /\ alive[p] /\ pc[p] = "probe"
    /\ IF IsProcessRunning(pidRead[p])
       THEN /\ pc' = [pc EXCEPT ![p] = "idle"]
            /\ ret' = [ret EXCEPT ![p] = AcquireBusy]
       ELSE /\ pc' = [pc EXCEPT ![p] = "remove"]
            /\ ret' = ret
    /\ pidRead' = [pidRead EXCEPT ![p] = 0]
    /\ solo' = Disturb(p)
    /\ isLockedRet' = None
    /\ UNCHANGED <<goos, alive, lock, lockFile, sinceRelease>>

\* _ = os.Remove(lockPath)
AcquireRemove(p) ==
    /\ alive[p] /\ pc[p] = "remove"
    /\ lockFile' = OsRemove(p)
    /\ pc' = [pc EXCEPT ![p] = "create"]
    /\ solo' = Disturb(p)
    /\ isLockedRet' = None
    /\ UNCHANGED <<goos, alive, pidRead, lock, ret, sinceRelease>>

\* os.OpenFile(lockPath, O_CREATE|O_EXCL|O_WRONLY, 0644)
AcquireCreate(p) ==
    /\ alive[p] /\ pc[p] = "create"
    /\ IF lockFile.exists
       THEN /\ pc' = [pc EXCEPT ![p] = "idle"]
            /\ ret' = [ret EXCEPT ![p] = AcquireBusy]
            /\ lockFile' = lockFile
       ELSE /\ pc' = [pc EXCEPT ![p] = "write"]
            /\ ret' = ret
            /\ lockFile' = File(p, <<>>)
    /\ sinceRelease' = (sinceRelease /\ lockFile.exists)
    /\ solo' = Disturb(p)
    /\ isLockedRet' = None
    /\ UNCHANGED <<goos, alive, pidRead, lock>>

\* fmt.Fprintf(f, "%d", os.Getpid()) on the handle, then return f, lockPath;
\* AcquireLock wraps them in a FileLock.  The write goes to the file the
\* handle is open on, which is at the path only if nobody removed it since.
AcquireWrite(p) ==
    /\ alive[p] /\ pc[p] = "write"
    /\ lockFile' = IF lockFile.exists /\ lockFile.ino = p
                   THEN File(p, FormatInt(Getpid(p)))
                   ELSE lockFile
    /\ pc' = [pc EXCEPT ![p] = "idle"]
    /\ lock' = [lock EXCEPT ![p] =
                  [File |-> "open", Path |-> GetLockFilePath(AppName)]]
    /\ ret' = [ret EXCEPT ![p] = AcquireOk]
    /\ solo' = Disturb(p)
    /\ isLockedRet' = None
    /\ UNCHANGED <<goos, alive, pidRead, sinceRelease>>

\* ------------------------------------------------------ Release, IsLocked
\* ReleaseFileLock(lockFile, lockPath): what it does to the file system and
\* to the handle.
ReleaseFileLockNoRemove(l, p) ==
    [file |-> lockFile, handle |-> [l EXCEPT !.File = "closed"]]

ReleaseFileLock(l, p) ==
    [file |-> IF l.Path # <<>> THEN OsRemove(p) ELSE lockFile,
     handle |-> [l EXCEPT !.File = "closed"]]

\* (l *FileLock) Release()
Release(p) ==
    /\ alive[p] /\ pc[p] = "idle"
    /\ IF lock[p] = Nil
       THEN UNCHANGED <<lock, lockFile>>
       ELSE /\ lockFile' = ReleaseFileLock(lock[p], p).file
            /\ lock' = [lock EXCEPT ![p] = ReleaseFileLock(lock[p], p).handle]
    /\ sinceRelease' = (sinceRelease \/ Holds(p))
    /\ solo' = Disturb(p)
    /\ isLockedRet' = None
    /\ UNCHANGED <<goos, alive, pc, pidRead, ret>>

\* IsLocked(appName), as a function of the file system
IsLockedNow ==
    IF ~lockFile.exists THEN IsLockedRet(FALSE, 0)
    ELSE IF ~lockFile.readable THEN IsLockedRet(TRUE, 0)
    ELSE LET conv == Atoi(lockFile.content)
         IN  IF ~conv.ok THEN IsLockedRet(FALSE, 0)
             ELSE IF IsProcessRunning(conv.val) THEN IsLockedRet(TRUE, conv.val)
             ELSE IsLockedRet(FALSE, 0)

\* An IsLocked that cleans up: it removes a record it finds not locked.
IsLockedCleaning(p) ==
    /\ alive[p] /\ pc[p] = "idle"
    /\ isLockedRet' = IsLockedNow
    /\ lockFile' = IF lockFile.exists /\ ~IsLockedNow.locked THEN OsRemove(p)
                   ELSE lockFile
    /\ UNCHANGED <<goos, alive, pc, pidRead, lock, ret, solo, sinceRelease>>

IsLocked(p) ==
    /\ alive[p] /\ pc[p] = "idle"
    /\ isLockedRet' = IsLockedNow
    /\ UNCHANGED <<goos, alive, pc, pidRead, lock, ret, lockFile, solo,
                   sinceRelease>>

\* The process ends without releasing: its handles go, its files stay.
Terminate(p) ==
    /\ alive[p]
    /\ alive' = [alive EXCEPT ![p] = FALSE]
    /\ pc' = [pc EXCEPT ![p] = "dead"]
    /\ pidRead' = [pidRead EXCEPT ![p] = 0]
    /\ lock' = [lock EXCEPT ![p] = Nil]
    /\ ret' = [ret EXCEPT ![p] = None]
    /\ solo' = [solo EXCEPT ![p] = FALSE]
    /\ isLockedRet' = None
    /\ UNCHANGED <<goos, lockFile, sinceRelease>>

\* ------------------------------------------------- the node instance
\* One process, NodeProc, embeds the node package; the other processes of
\* Rivals run the same application name and compete for its lock.
VARIABLES
    reg,             \* RegisterWithConfig: "none", "locking", "ok", "error"
    regErr,          \* the error RegisterWithConfig returned, or Nil
    currentInstance, \* the package-level currentInstance is set
    instConnected,   \* Instance.connected
    mqttClient,      \* Instance.mqttClient: Nil or the transport client
    rcvPc,           \* the goroutine startCommandReceiver
    receiver,        \* Instance.receiver: Nil or the CommandReceiver
    hb,              \* the goroutine heartbeatLoop
    loop,            \* the goroutine startReconnectLoop
    cancelled,       \* Instance.ctx is cancelled
    status,          \* Status of the receiver's NodeContext
    stops,           \* calls of Instance.Stop so far
    broker           \* the broker is reachable: "up" or "down"

\* The lifecycle context of the receiver, its heartbeats and its dispatch.
VARIABLES
    now,        \* the time, in periods of the heartbeat ticker
    startTime,  \* NodeContext.startTime of the current receiver
    hbAt,       \* the time of the last tick the heartbeat loop has handled
    orphan,     \* Nil, or the heartbeat loop of a receiver that was replaced
    outbox,     \* the last message published on each topic of the receiver
    hooks,      \* NodeContext.shutdownHooks
    executed,   \* the hooks run so far, in the order they ran
    dispatched, \* what handleControlMessage did with the last message
    ctxMu       \* NodeContext.mu: the call that holds it, and whether a
                \* call waits for it that can never get it

ctxVars ==
    <<now, startTime, hbAt, orphan, outbox, hooks, executed, dispatched,
      ctxMu>>

nodeVars ==
    <<reg, regErr, currentInstance, instConnected, mqttClient, rcvPc,
      receiver, hb, loop, cancelled, status, stops, broker, ctxVars>>

vars == <<lockVars, nodeVars>>

NumRivals == 1
MaxStops == 2
MaxHooks == 2
MaxTime == 2
MaxRegs == 2

NodeProc == CHOOSE p \in Procs : \A q \in Procs : p <= q
Rivals == {p \in Procs : p > NodeProc /\ p <= NodeProc + NumRivals}

\* The processes that operate on the lock of AppName.
Contenders == {NodeProc} \union Rivals

Names == {"", AppName}

\* fmt.Errorf(format, args...): the format and, for each verb of the format,
\* the verb and the value it is given.
Errorf(format, args) == [format |-> format, args |-> args]

\* transport.MQTTClient: the connected flag the callbacks keep, and the
\* state of the paho client under it.
NewMQTTClient == [connected |-> FALSE, paho |-> "new"]

\* (m *MQTTClient) IsConnected()
ClientIsConnected(m) == m.connected /\ m.paho = "connected"

\* (inst *Instance) IsConnected()
IsConnected ==
    instConnected /\ mqttClient # Nil /\ ClientIsConnected(mqttClient)

\* NewCommandReceiverWithInstanceID
NewCommandReceiver ==
    [status |-> "stopped", paho |-> "nil", subscribed |-> FALSE,
     cancelled |-> FALSE, handlers |-> <<>>, registered |-> 0]

\* A registry that keeps the handler a name already has.
RegisterHandlerKeepFirst(r, command, handler) ==
    [r EXCEPT !.handlers = r.handlers @@ (command :> handler)]

\* (r *CommandReceiver) RegisterHandler(command, handler)
RegisterHandler(r, command, handler) ==
    [r EXCEPT !.handlers = (command :> handler) @@ r.handlers]

\* NewStopHandler(cancel), NewStatusHandler(), NewQueryHandler()
NewStopHandler(cancel) == [type |-> "StopHandler", cancelFunc |-> cancel]
NewStatusHandler == [type |-> "StatusHandler"]
NewQueryHandler == [type |-> "QueryHandler"]
NewRestartHandler(nodeCtx) == [type |-> "RestartHandler", nodeCtx |-> nodeCtx]

\* The NodeContext of the receiver, as a host holds it that created it and
\* passed it to Start in the context.
ReceiverNodeContext == [nil |-> FALSE]

\* The receiver startCommandReceiver creates: the default handlers, the stop
\* handler's cancel function being os.Exit(0).
DefaultReceiver ==
    RegisterHandler(
        RegisterHandler(
            RegisterHandler(NewCommandReceiver,
                            "stop", NewStopHandler("os.Exit")),
            "status", NewStatusHandler),
        "query", NewQueryHandler)

\* Nothing published yet: no register message, no heartbeat, and no Publish
\* made by sendHeartbeat.
EmptyOutbox == [register |-> Nil, heartbeat |-> Nil, attempt |-> Nil]

NodeInit ==
    /\ reg = "none"
    /\ regErr = Nil
    /\ currentInstance = FALSE
    /\ instConnected = FALSE
    /\ mqttClient = Nil
    /\ rcvPc = "none"
    /\ receiver = Nil
    /\ hb = "none"
    /\ loop = "none"
    /\ cancelled = FALSE
    /\ status = "none"
    /\ stops = 0
    /\ broker = "down"
    /\ now = 0
    /\ startTime = 0
    /\ hbAt = 0
    /\ orphan = Nil
    /\ outbox = EmptyOutbox
    /\ hooks = <<>>
    /\ executed = <<>>
    /\ dispatched = Nil
    /\ ctxMu = [holder |-> "none", stuck |-> FALSE]

\* (inst *Instance) connectMQTT(): Connect and Subscribe succeed when the
\* broker is reachable.  The result and the fields it sets.
ConnectMQTT ==
    IF broker = "up"
    THEN [err |-> FALSE,
          client |-> [NewMQTTClient EXCEPT !.paho = "connected"],
          connected |-> TRUE,
          rcvPc |-> "spawned"]
    ELSE [err |-> TRUE,
          client |-> mqttClient,
          connected |-> instConnected,
          rcvPc |-> rcvPc]

\* RegisterWithConfig from the creation of the Instance on: connectMQTT,
\* and the reconnect loop when it failed; it returns nil either way.
RegisterBodyFailFast ==
    /\ currentInstance' = TRUE
    /\ mqttClient' = ConnectMQTT.client
    /\ instConnected' = ConnectMQTT.connected
    /\ rcvPc' = ConnectMQTT.rcvPc
    /\ loop' = loop
    /\ reg' = IF ConnectMQTT.err THEN "error" ELSE "ok"
    /\ regErr' = IF ConnectMQTT.err THEN Errorf("connect", <<>>) ELSE Nil
    /\ UNCHANGED <<receiver, hb, cancelled, status, stops, broker>>

RegisterBody ==
    /\ currentInstance' = TRUE
    /\ mqttClient' = ConnectMQTT.client
    /\ instConnected' = ConnectMQTT.connected
    /\ rcvPc' = ConnectMQTT.rcvPc
    /\ loop' = IF ConnectMQTT.err THEN "running" ELSE loop
    /\ reg' = "ok"
    /\ regErr' = Nil
    /\ UNCHANGED <<receiver, hb, cancelled, status, stops, broker>>

\* RegisterWithConfig(nodeName, config) up to the call of AcquireLock
Register(nodeName, enableFileLock) ==
    /\ alive[NodeProc] /\ pc[NodeProc] = "idle" /\ reg = "none"
    /\ IF nodeName = ""
       THEN /\ reg' = "error"
            /\ regErr' = Errorf("nodeName is required", <<>>)
            /\ UNCHANGED <<currentInstance, instConnected, mqttClient, rcvPc,
                           receiver, hb, loop, cancelled, status, stops,
                           broker>>
       ELSE IF enableFileLock
       THEN /\ reg' = "locking"
            /\ UNCHANGED <<regErr, currentInstance, instConnected, mqttClient,
                           rcvPc, receiver, hb, loop, cancelled, status,
                           stops, broker>>
       ELSE RegisterBody
    /\ UNCHANGED lockVars
    /\ UNCHANGED ctxVars

\* util.AcquireLock(nodeName) inside RegisterWithConfig, step by step
RegisterAcquire ==
    /\ reg = "locking"
    /\ \/ ret[NodeProc] = None /\ AcquireStat(NodeProc)
       \/ AcquireRead(NodeProc)
       \/ AcquireProbe(NodeProc)
       \/ AcquireRemove(NodeProc)
       \/ AcquireCreate(NodeProc)
       \/ AcquireWrite(NodeProc)
    /\ UNCHANGED nodeVars

\* fmt.Errorf("... %s ...", nodeName): the text names the node only.
AlreadyRunningError(nodeName) ==
    Errorf("another instance is running", <<[verb |-> "%s", val |-> nodeName]>>)

\* A RegisterWithConfig that publishes the Instance before it knows the
\* outcome of AcquireLock.
RegisterLockedEager ==
    /\ alive[NodeProc] /\ pc[NodeProc] = "idle" /\ reg = "locking"
    /\ ret[NodeProc] \in {AcquireOk, AcquireBusy}
    /\ IF ret[NodeProc] = AcquireBusy
       THEN /\ reg' = "error"
            /\ regErr' = AlreadyRunningError(AppName)
            /\ currentInstance' = TRUE
            /\ UNCHANGED <<instConnected, mqttClient, rcvPc, receiver, hb,
                           loop, cancelled, status, stops, broker>>
       ELSE RegisterBody
    /\ UNCHANGED lockVars
    /\ UNCHANGED ctxVars

\* RegisterWithConfig once AcquireLock has returned
RegisterLocked ==
    /\ alive[NodeProc] /\ pc[NodeProc] = "idle" /\ reg = "locking"
    /\ ret[NodeProc] \in {AcquireOk, AcquireBusy}
    /\ IF ret[NodeProc] = AcquireBusy
       THEN /\ reg' = "error"
            /\ regErr' = AlreadyRunningError(AppName)
            /\ UNCHANGED <<currentInstance, instConnected, mqttClient, rcvPc,
                           receiver, hb, loop, cancelled, status, stops,
                           broker>>
       ELSE RegisterBody
    /\ UNCHANGED lockVars
    /\ UNCHANGED ctxVars

\* ------------------------------------------------ callbacks and goroutines
\* (m *MQTTClient) onConnect, which paho runs after the connection is made
OnConnect ==
    /\ alive[NodeProc] /\ mqttClient # Nil
    /\ mqttClient.paho = "connected" /\ ~mqttClient.connected
    /\ mqttClient' = [mqttClient EXCEPT !.connected = TRUE]
    /\ UNCHANGED <<reg, regErr, currentInstance, instConnected, rcvPc,
                   receiver, hb, loop, cancelled, status, stops, broker>>
    /\ UNCHANGED lockVars
    /\ UNCHANGED ctxVars

\* inst.receiver = receiver with a heartbeat loop of the receiver before
\* still running: nothing stops that receiver, its loop goes on with its own
\* client and its own NodeContext. (Of several such loops the latest is
\* followed.)
Orphaned ==
    IF hb \in {"delay", "loop"} /\ receiver # Nil
    THEN [hb |-> hb, startTime |-> startTime, hbAt |-> hbAt,
          paho |-> receiver.paho]
    ELSE orphan

\* startCommandReceiver up to the registration of the default handlers
StartCommandReceiver ==
    /\ alive[NodeProc] /\ rcvPc = "spawned"
    /\ receiver' = DefaultReceiver
    /\ rcvPc' = "created"
    /\ orphan' = Orphaned
    /\ hb' = IF hb \in {"delay", "loop"} THEN "none" ELSE hb
    /\ UNCHANGED <<reg, regErr, currentInstance, instConnected, mqttClient,
                   loop, cancelled, status, stops, broker>>
    /\ UNCHANGED <<now, startTime, hbAt, outbox, hooks, executed,
                   ctxMu, dispatched>>
    /\ UNCHANGED lockVars

\* (r *CommandReceiver) Start(ctx): a new NodeContext (Status starting), a
\* new cancel function on a context derived from ctx, the connect of the
\* receiver's own client, and on success Status running and the heartbeat
\* loop.
ReceiverStart ==
    /\ alive[NodeProc] /\ rcvPc = "created" /\ receiver # Nil
    /\ IF broker = "up"
       THEN /\ receiver' = [receiver EXCEPT !.status = "running",
                                            !.paho = "connected",
                                            !.cancelled = FALSE]
            /\ status' = "running"
            /\ hb' = "delay"
       ELSE /\ receiver' = [receiver EXCEPT !.status = "error",
                                            !.paho = "failed",
                                            !.cancelled = FALSE]
            /\ status' = "starting"
            /\ hb' = hb
    /\ rcvPc' = "done"
    /\ startTime' = now
    /\ hbAt' = now
    /\ hooks' = <<>>
    /\ executed' = <<>>
    /\ ctxMu' = [ctxMu EXCEPT !.holder = "none"]
    /\ UNCHANGED <<reg, regErr, currentInstance, instConnected, mqttClient,
                   loop, cancelled, stops, broker>>
    /\ UNCHANGED <<now, orphan, outbox, dispatched>>
    /\ UNCHANGED lockVars

\* sendRegisterMessage: what it publishes
RegisterMessage == [pid |-> Getpid(NodeProc), start_time |-> startTime]

\* opts.OnConnect of the receiver: subscribe the control topic, publish the
\* register message
ReceiverOnConnect ==
    /\ alive[NodeProc] /\ receiver # Nil
    /\ receiver.paho = "connected" /\ ~receiver.subscribed
    /\ receiver' = [receiver EXCEPT !.subscribed = TRUE]
    /\ outbox' = [outbox EXCEPT !.register = RegisterMessage]
    /\ UNCHANGED <<reg, regErr, currentInstance, instConnected, mqttClient,
                   rcvPc, hb, loop, cancelled, status, stops, broker>>
    /\ UNCHANGED <<now, startTime, hbAt, orphan, hooks, executed,
                   ctxMu, dispatched>>
    /\ UNCHANGED lockVars

\* The context heartbeatLoop runs under is cancelled.
ReceiverCancelled == cancelled \/ (receiver # Nil /\ receiver.cancelled)

\* The heartbeat message sendHeartbeat builds for a NodeContext started at
\* start: its uptime, and the time it is built at.
Heartbeat(start) == [uptime |-> now - start, at |-> now]

\* A sendHeartbeat that publishes what the call before it failed to publish.
SendHeartbeatBacklog(paho, start, ok) ==
    IF paho # "connected"
    THEN [attempt |-> Nil, msg |-> Nil]
    ELSE IF outbox.attempt # Nil /\ ~outbox.attempt.ok
    THEN [attempt |-> [msg |-> outbox.attempt.msg, ok |-> ok],
          msg |-> IF ok THEN outbox.attempt.msg ELSE Nil]
    ELSE [attempt |-> [msg |-> Heartbeat(start), ok |-> ok],
          msg |-> IF ok THEN Heartbeat(start) ELSE Nil]

\* sendHeartbeat on a client in state paho, ok telling whether the Publish
\* succeeds: no Publish at all when the client is not connected, else one
\* Publish of a message built now, its error only logged.
SendHeartbeat(paho, start, ok) ==
    IF paho # "connected"
    THEN [attempt |-> Nil, msg |-> Nil]
    ELSE [attempt |-> [msg |-> Heartbeat(start), ok |-> ok],
          msg |-> IF ok THEN Heartbeat(start) ELSE Nil]

\* The topics after a sendHeartbeat that did s.
Sent(s) ==
    [outbox EXCEPT !.heartbeat = IF s.msg # Nil THEN s.msg ELSE @,
                   !.attempt = s.attempt]

\* heartbeatLoop: the first heartbeat after the initial delay
HeartbeatFirst ==
    /\ alive[NodeProc] /\ hb = "delay"
    /\ hb' = "loop"
    /\ \E ok \in BOOLEAN :
          outbox' = Sent(SendHeartbeat(receiver.paho, startTime, ok))
    /\ UNCHANGED <<reg, regErr, currentInstance, instConnected, mqttClient,
                   rcvPc, receiver, loop, cancelled, status, stops, broker>>
    /\ UNCHANGED <<now, startTime, hbAt, orphan, hooks, executed,
                   ctxMu, dispatched>>
    /\ UNCHANGED lockVars

\* heartbeatLoop: case <-ticker.C
HeartbeatTick ==
    /\ alive[NodeProc] /\ hb = "loop" /\ hbAt < now
    /\ hbAt' = now
    /\ \E ok \in BOOLEAN :
          outbox' = Sent(SendHeartbeat(receiver.paho, startTime, ok))
    /\ UNCHANGED <<reg, regErr, currentInstance, instConnected, mqttClient,
                   rcvPc, receiver, hb, loop, cancelled, status, stops,
                   broker>>
    /\ UNCHANGED <<now, startTime, orphan, hooks, executed, ctxMu, dispatched>>
    /\ UNCHANGED lockVars

\* The heartbeat loop of a replaced receiver: its first heartbeat and its
\* ticks.
OrphanFirst ==
    /\ alive[NodeProc] /\ orphan # Nil /\ orphan.hb = "delay"
    /\ orphan' = [orphan EXCEPT !.hb = "loop"]
    /\ \E ok \in BOOLEAN :
          outbox' = Sent(SendHeartbeat(orphan.paho, orphan.startTime, ok))
    /\ UNCHANGED <<reg, regErr, currentInstance, instConnected, mqttClient,
                   rcvPc, receiver, hb, loop, cancelled, status, stops,
                   broker>>
    /\ UNCHANGED <<now, startTime, hbAt, hooks, executed, ctxMu, dispatched>>
    /\ UNCHANGED lockVars

OrphanTick ==
    /\ alive[NodeProc] /\ orphan # Nil /\ orphan.hb = "loop"
    /\ orphan.hbAt < now
    /\ orphan' = [orphan EXCEPT !.hbAt = now]
    /\ \E ok \in BOOLEAN :
          outbox' = Sent(SendHeartbeat(orphan.paho, orphan.startTime, ok))
    /\ UNCHANGED <<reg, regErr, currentInstance, instConnected, mqttClient,
                   rcvPc, receiver, hb, loop, cancelled, status, stops,
                   broker>>
    /\ UNCHANGED <<now, startTime, hbAt, hooks, executed, ctxMu, dispatched>>
    /\ UNCHANGED lockVars

\* heartbeatLoop of a replaced receiver: case <-ctx.Done(). Its context is
\* derived from the Instance's, so the Instance's cancellation ends it.
OrphanExit ==
    /\ alive[NodeProc] /\ orphan # Nil /\ orphan.hb = "loop" /\ cancelled
    /\ orphan' = [orphan EXCEPT !.hb = "exited"]
    /\ UNCHANGED <<reg, regErr, currentInstance, instConnected, mqttClient,
                   rcvPc, receiver, hb, loop, cancelled, status, stops,
                   broker>>
    /\ UNCHANGED <<now, startTime, hbAt, outbox, hooks, executed,
                   ctxMu, dispatched>>
    /\ UNCHANGED lockVars

\* A period of the heartbeat tickers passes. Every running loop has taken
\* its tick of the period before (the loops are not starved for a period).
ClockTick ==
    /\ now < MaxTime
    /\ hb # "delay" /\ (hb = "loop" => hbAt = now)
    /\ orphan # Nil =>
          (orphan.hb # "delay" /\ (orphan.hb = "loop" => orphan.hbAt = now))
    /\ now' = now + 1
    /\ UNCHANGED <<reg, regErr, currentInstance, instConnected, mqttClient,
                   rcvPc, receiver, hb, loop, cancelled, status, stops,
                   broker>>
    /\ UNCHANGED <<startTime, hbAt, orphan, outbox, hooks, executed, ctxMu,
                   dispatched>>
    /\ UNCHANGED lockVars

\* A heartbeat loop that waits on a context of the receiver's own, which the
\* cancellation of the Instance does not reach.
HeartbeatExitDetached ==
    /\ alive[NodeProc] /\ hb = "loop"
    /\ receiver # Nil /\ receiver.cancelled
    /\ hb' = "exited"
    /\ UNCHANGED <<reg, regErr, currentInstance, instConnected, mqttClient,
                   rcvPc, receiver, loop, cancelled, status, stops, broker>>
    /\ UNCHANGED lockVars
    /\ UNCHANGED ctxVars

\* heartbeatLoop: case <-ctx.Done()
HeartbeatExit ==
    /\ alive[NodeProc] /\ hb = "loop" /\ ReceiverCancelled
    /\ hb' = "exited"
    /\ UNCHANGED <<reg, regErr, currentInstance, instConnected, mqttClient,
                   rcvPc, receiver, loop, cancelled, status, stops, broker>>
    /\ UNCHANGED lockVars
    /\ UNCHANGED ctxVars

\* A tick that connects afresh whatever it finds.
ReconnectTickAlways ==
    /\ alive[NodeProc] /\ loop = "running"
    /\ instConnected' = ~ConnectMQTT.err
    /\ mqttClient' = ConnectMQTT.client
    /\ rcvPc' = ConnectMQTT.rcvPc
    /\ UNCHANGED <<reg, regErr, currentInstance, receiver, hb, loop,
                   cancelled, status, stops, broker>>
    /\ UNCHANGED lockVars
    /\ UNCHANGED ctxVars

\* startReconnectLoop: case <-inst.reconnectTicker.C
ReconnectTick ==
    /\ alive[NodeProc] /\ loop = "running"
    /\ IF instConnected /\ mqttClient # Nil /\ ClientIsConnected(mqttClient)
       THEN UNCHANGED <<instConnected, mqttClient, rcvPc>>
       ELSE /\ instConnected' = ~ConnectMQTT.err
            /\ mqttClient' = ConnectMQTT.client
            /\ rcvPc' = ConnectMQTT.rcvPc
    /\ UNCHANGED <<reg, regErr, currentInstance, receiver, hb, loop,
                   cancelled, status, stops, broker>>
    /\ UNCHANGED lockVars
    /\ UNCHANGED ctxVars

\* startReconnectLoop: case <-inst.ctx.Done()
ReconnectExit ==
    /\ alive[NodeProc] /\ loop = "running" /\ cancelled
    /\ loop' = "exited"
    /\ UNCHANGED <<reg, regErr, currentInstance, instConnected, mqttClient,
                   rcvPc, receiver, hb, cancelled, status, stops, broker>>
    /\ UNCHANGED lockVars
    /\ UNCHANGED ctxVars

\* --------------------------------------------------- the NodeContext
\* The context the receiver created in Start exists.
HasNodeContext == alive[NodeProc] /\ receiver # Nil /\ status # "none"

\* r.nodeCtx: the NodeContext Start created, or nil before Start.
NodeCtx ==
    IF HasNodeContext THEN [nodeName |-> AppName, startTime |-> startTime]
    ELSE Nil

\* context.Background(): it carries no value.
Background == [value |-> Nil]

\* WithNodeContext(ctx, nodeCtx): context.WithValue(ctx, contextKey{}, nodeCtx)
WithNodeContext(ctx, nodeCtx) == [parent |-> ctx, value |-> nodeCtx]

\* GetNodeContextFromContext(ctx): ctx.Value(contextKey{}), nil when absent
GetNodeContextFromContext(ctx) ==
    IF ctx.value # Nil THEN ctx.value ELSE Nil

Reverse(seq) == [i \in 1..Len(seq) |-> seq[Len(seq) + 1 - i]]

\* (c *NodeContext) SetStatus(status)
SetStatus(st) == status' = st

\* (c *NodeContext) AddShutdownHook(hook), under c.mu: the hooks are
\* numbered in the order of their registration.
AddShutdownHook ==
    /\ HasNodeContext /\ Len(hooks) < MaxHooks
    /\ ctxMu.holder = "none"
    /\ hooks' = Append(hooks, Len(hooks) + 1)
    /\ UNCHANGED <<reg, regErr, currentInstance, instConnected, mqttClient,
                   rcvPc, receiver, hb, loop, cancelled, status, stops,
                   broker>>
    /\ UNCHANGED <<now, startTime, hbAt, orphan, outbox, executed, ctxMu,
                   dispatched>>
    /\ UNCHANGED lockVars

\* AddShutdownHook with a hook whose body calls AddShutdownHook on the same
\* NodeContext: its number is negative.
AddReentrantHook ==
    /\ HasNodeContext /\ Len(hooks) < MaxHooks
    /\ ctxMu.holder = "none"
    /\ hooks' = Append(hooks, 0 - (Len(hooks) + 1))
    /\ UNCHANGED <<reg, regErr, currentInstance, instConnected, mqttClient,
                   rcvPc, receiver, hb, loop, cancelled, status, stops,
                   broker>>
    /\ UNCHANGED <<now, startTime, hbAt, orphan, outbox, executed, ctxMu,
                   dispatched>>
    /\ UNCHANGED lockVars

\* The hooks a call of ExecuteShutdownHooks starts, from the last to the
\* first: all of them, or those up to the first one that calls
\* AddShutdownHook, which waits for c.mu while the call itself holds it.
Started(hs) ==
    LET rev == Reverse(hs)
        blocking == {k \in 1..Len(rev) : rev[k] < 0}
    IN  IF blocking = {} THEN rev
        ELSE SubSeq(rev, 1, CHOOSE k \in blocking :
                                \A m \in blocking : k <= m)

\* (c *NodeContext) ExecuteShutdownHooks(), under c.mu (sync.Mutex, not
\* reentrant) until it returns: the hooks from the last to the first, then
\* Status stopped.  A hook that waits for c.mu never returns, the call
\* keeps the mutex and does not reach SetStatus.
ExecuteShutdownHooks ==
    /\ HasNodeContext /\ Len(executed) < MaxHooks
    /\ ctxMu.holder = "none"
    /\ executed' = executed \o Started(hooks)
    /\ IF \E k \in 1..Len(hooks) : hooks[k] < 0
       THEN /\ ctxMu' = [holder |-> "ExecuteShutdownHooks", stuck |-> TRUE]
            /\ status' = status
       ELSE /\ ctxMu' = ctxMu
            /\ SetStatus("stopped")
    /\ UNCHANGED <<reg, regErr, currentInstance, instConnected, mqttClient,
                   rcvPc, receiver, hb, loop, cancelled, stops, broker>>
    /\ UNCHANGED <<now, startTime, hbAt, orphan, outbox, hooks, dispatched>>
    /\ UNCHANGED lockVars

\* (c *NodeContext) Cancel(): Status stopping, and the context's own cancel
\* function, which no goroutine of the receiver waits on.
Cancel ==
    /\ HasNodeContext
    /\ SetStatus("stopping")
    /\ UNCHANGED <<reg, regErr, currentInstance, instConnected, mqttClient,
                   rcvPc, receiver, hb, loop, cancelled, stops, broker>>
    /\ UNCHANGED ctxVars
    /\ UNCHANGED lockVars

\* ----------------------------------------------------- command dispatch
\* A control payload as its JSON tokens.
CommandNames == {"stop", "status", "query", "restart"}

Payloads ==
    {<<"{", "command", ":", c, "}">> : c \in CommandNames}
        \cup {<<"{", "}">>, <<"{", "command", ":", "status">>, <<>>}

\* The request ids of the control messages, the empty one included.
RequestIDs == {"", "r1", "r2"}

\* Control payloads that carry a request_id.
RequestPayloads ==
    {<<"{", "command", ":", c, ",", "request_id", ":", id, "}">> :
        c \in CommandNames, id \in RequestIDs}

\* Command{Command, RequestID}
Command(command, requestID) ==
    [Command |-> command, RequestID |-> requestID]

\* json.Unmarshal(payload, &cmd): a complete object decodes, an absent key
\* leaves its field empty, anything else is an error.
Unmarshal(payload) ==
    IF payload = <<"{", "}">>
    THEN [err |-> FALSE, cmd |-> Command("", "")]
    ELSE IF /\ Len(payload) = 5
            /\ payload[1] = "{" /\ payload[2] = "command"
            /\ payload[3] = ":" /\ payload[5] = "}"
    THEN [err |-> FALSE, cmd |-> Command(payload[4], "")]
    ELSE IF /\ Len(payload) = 9
            /\ payload[1] = "{" /\ payload[2] = "command"
            /\ payload[3] = ":" /\ payload[5] = ","
            /\ payload[6] = "request_id" /\ payload[7] = ":"
            /\ payload[9] = "}"
    THEN [err |-> FALSE, cmd |-> Command(payload[4], payload[8])]
    ELSE [err |-> TRUE, cmd |-> Command("", "")]

\* CommandResult{Success, Message, RequestID}
CommandResult(success, message, requestID) ==
    [Success |-> success, Message |-> message, RequestID |-> requestID]

\* (c *NodeContext) GetUptime()
GetUptime == now - startTime

\* formatNodeInfo(nodeCtx)
FormatNodeInfo ==
    [node_name |-> AppName, status |-> status, pid |-> Getpid(NodeProc),
     uptime |-> GetUptime]

\* handler.Handle(ctx, cmd): what the call does, in order (effects), the
\* Status afterwards, whether it ends the process, and the result it returns
\* (none when the call does not return).  The NodeContext a handler finds,
\* in ctx or in its own field, is the receiver's.
StatusHandlerFixed(ctx, cmd) ==
    [status |-> status, exit |-> FALSE, effects |-> <<>>,
     result |-> CommandResult(TRUE, "running", cmd.RequestID)]

StatusHandlerHandle(ctx, cmd) ==
    [status |-> status, exit |-> FALSE, effects |-> <<>>,
     result |-> CommandResult(
                    TRUE,
                    IF GetNodeContextFromContext(ctx) # Nil THEN status
                    ELSE "unknown",
                    cmd.RequestID)]

QueryHandlerHandle(ctx, cmd) ==
    [status |-> status, exit |-> FALSE, effects |-> <<>>,
     result |-> IF GetNodeContextFromContext(ctx) = Nil
                THEN CommandResult(FALSE, "Node context not available",
                                   cmd.RequestID)
                ELSE CommandResult(TRUE, FormatNodeInfo, cmd.RequestID)]

\* A stop handler that answers without the request id.
StopHandlerNoEcho(h, ctx, cmd) ==
    LET set == IF GetNodeContextFromContext(ctx) # Nil
               THEN <<"SetStatus(stopping)">> ELSE <<>>
        st == IF GetNodeContextFromContext(ctx) # Nil THEN "stopping"
              ELSE status
    IN  IF h.cancelFunc = "os.Exit"
        THEN [status |-> st, exit |-> TRUE,
              effects |-> set \o <<"os.Exit">>, result |-> Nil]
        ELSE [status |-> st, exit |-> FALSE,
              effects |-> IF h.cancelFunc = "nil" THEN set
                          ELSE set \o <<"cancelFunc">>,
              result |-> CommandResult(TRUE, "Shutdown signal sent", "")]

StopHandlerHandle(h, ctx, cmd) ==
    LET set == IF GetNodeContextFromContext(ctx) # Nil
               THEN <<"SetStatus(stopping)">> ELSE <<>>
        st == IF GetNodeContextFromContext(ctx) # Nil THEN "stopping"
              ELSE status
    IN  IF h.cancelFunc = "os.Exit"
        THEN [status |-> st, exit |-> TRUE,
              effects |-> set \o <<"os.Exit">>, result |-> Nil]
        ELSE [status |-> st, exit |-> FALSE,
              effects |-> IF h.cancelFunc = "nil" THEN set
                          ELSE set \o <<"cancelFunc">>,
              result |-> CommandResult(TRUE, "Shutdown signal sent",
                                       cmd.RequestID)]

\* RestartHandler.Handle: SetStatus and Cancel on the handler's own
\* NodeContext; Cancel stores stopping again and calls the cancel function.
RestartHandlerHandle(h, ctx, cmd) ==
    [status |-> IF h.nodeCtx # Nil THEN "stopping" ELSE status,
     exit |-> FALSE,
     effects |-> IF h.nodeCtx # Nil
                 THEN <<"SetStatus(stopping)", "SetStatus(stopping)",
                        "cancelFunc">>
                 ELSE <<>>,
     result |-> CommandResult(TRUE, "Restart initiated", cmd.RequestID)]

Handle(h, ctx, cmd) ==
    CASE h.type = "StopHandler" -> StopHandlerHandle(h, ctx, cmd)
      [] h.type = "StatusHandler" -> StatusHandlerHandle(ctx, cmd)
      [] h.type = "RestartHandler" -> RestartHandlerHandle(h, ctx, cmd)
      [] h.type = "QueryHandler" -> QueryHandlerHandle(ctx, cmd)

\* A host program that uses the receiver on its own, as the example
\* with_custom_handler does: sync.NewCommandReceiver, RegisterHandler calls,
\* then Start (rcvPc is then the position of the host's main).
HostNewReceiver ==
    /\ alive[NodeProc] /\ rcvPc = "none" /\ receiver = Nil
    /\ receiver' = NewCommandReceiver
    /\ rcvPc' = "created"
    /\ UNCHANGED <<reg, regErr, currentInstance, instConnected, mqttClient,
                   hb, loop, cancelled, status, stops, broker>>
    /\ UNCHANGED <<now, startTime, hbAt, orphan, outbox, hooks, executed, ctxMu,
                   dispatched>>
    /\ UNCHANGED lockVars

\* The command names the host registers handlers under.
HostNames == {"stop", "restart"}

\* The built-in handlers as a host can construct them: a stop handler with
\* no cancel function, with the host's own, or with os.Exit; a restart
\* handler without a NodeContext or with the receiver's.
HostHandlers ==
    {NewStopHandler("nil"), NewStopHandler("cancel"),
     NewStopHandler("os.Exit"),
     NewRestartHandler(Nil), NewRestartHandler(ReceiverNodeContext),
     NewStatusHandler, NewQueryHandler}

\* The host's RegisterHandler calls before Start; registered is the host's
\* position in that sequence of calls.
HostRegisterHandler(command, handler) ==
    /\ alive[NodeProc]
    /\ receiver # Nil /\ rcvPc = "created"
    /\ receiver.registered < MaxRegs
    /\ receiver' = [RegisterHandler(receiver, command, handler)
                        EXCEPT !.registered = @ + 1]
    /\ UNCHANGED <<reg, regErr, currentInstance, instConnected, mqttClient,
                   rcvPc, hb, loop, cancelled, status, stops, broker>>
    /\ UNCHANGED <<now, startTime, hbAt, orphan, outbox, hooks, executed, ctxMu,
                   dispatched>>
    /\ UNCHANGED lockVars

\* The process is inside os.Exit, called by the stop handler.
Exiting == dispatched # Nil /\ dispatched.exit

\* A decoder that takes the command name from a payload that breaks off.
UnmarshalLenient(payload) ==
    IF Len(payload) >= 4 /\ payload[2] = "command"
    THEN [err |-> FALSE, cmd |-> Command(payload[4], "")]
    ELSE Unmarshal(payload)

DispatchLenient(payload) ==
    LET u == UnmarshalLenient(payload) IN
    IF u.err
    THEN [payload |-> payload, log |-> "parse", handler |-> "none",
          cmd |-> u.cmd, invoked |-> <<>>, ctx |-> Nil,
          effects |-> <<>>,
          status |-> status, exit |-> FALSE, result |-> Nil]
    ELSE IF u.cmd.Command \in DOMAIN receiver.handlers
    THEN LET h == receiver.handlers[u.cmd.Command] IN
         [payload |-> payload, log |-> "result", handler |-> h.type,
          cmd |-> u.cmd, invoked |-> <<h.type>>,
          ctx |-> WithNodeContext(Background, NodeCtx),
          effects |->
              Handle(h, WithNodeContext(Background, NodeCtx), u.cmd).effects,
          status |->
              Handle(h, WithNodeContext(Background, NodeCtx), u.cmd).status,
          exit |->
              Handle(h, WithNodeContext(Background, NodeCtx), u.cmd).exit,
          result |->
              Handle(h, WithNodeContext(Background, NodeCtx), u.cmd).result]
    ELSE [payload |-> payload, log |-> "miss", handler |-> "none",
          cmd |-> u.cmd, invoked |-> <<>>, ctx |-> Nil,
          effects |-> <<>>,
          status |-> status, exit |-> FALSE, result |-> Nil]

\* A dispatch that answers a command it has no handler for.
DispatchReplyUnknown(payload) ==
    LET u == Unmarshal(payload) IN
    IF u.err
    THEN [payload |-> payload, log |-> "parse", handler |-> "none",
          cmd |-> u.cmd, invoked |-> <<>>, ctx |-> Nil,
          effects |-> <<>>,
          status |-> status, exit |-> FALSE, result |-> Nil]
    ELSE IF u.cmd.Command \in DOMAIN receiver.handlers
    THEN LET h == receiver.handlers[u.cmd.Command] IN
         [payload |-> payload, log |-> "result", handler |-> h.type,
          cmd |-> u.cmd, invoked |-> <<h.type>>,
          ctx |-> WithNodeContext(Background, NodeCtx),
          effects |->
              Handle(h, WithNodeContext(Background, NodeCtx), u.cmd).effects,
          status |->
              Handle(h, WithNodeContext(Background, NodeCtx), u.cmd).status,
          exit |->
              Handle(h, WithNodeContext(Background, NodeCtx), u.cmd).exit,
          result |->
              Handle(h, WithNodeContext(Background, NodeCtx), u.cmd).result]
    ELSE [payload |-> payload, log |-> "miss", handler |-> "none",
          cmd |-> u.cmd, invoked |-> <<>>, ctx |-> Nil,
          effects |-> <<>>,
          status |-> status, exit |-> FALSE,
          result |-> CommandResult(FALSE, "unknown command", "")]

\* A dispatch that hands the handler context.Background() as it is.
DispatchDetached(payload) ==
    LET u == Unmarshal(payload) IN
    IF u.err
    THEN [payload |-> payload, log |-> "parse", handler |-> "none",
          cmd |-> u.cmd, invoked |-> <<>>, ctx |-> Nil,
          effects |-> <<>>,
          status |-> status, exit |-> FALSE, result |-> Nil]
    ELSE IF u.cmd.Command \in DOMAIN receiver.handlers
    THEN LET h == receiver.handlers[u.cmd.Command] IN
         [payload |-> payload, log |-> "result", handler |-> h.type,
          cmd |-> u.cmd, invoked |-> <<h.type>>,
          ctx |-> Background,
          effects |-> Handle(h, Background, u.cmd).effects,
          status |-> Handle(h, Background, u.cmd).status,
          exit |-> Handle(h, Background, u.cmd).exit,
          result |-> Handle(h, Background, u.cmd).result]
    ELSE [payload |-> payload, log |-> "miss", handler |-> "none",
          cmd |-> u.cmd, invoked |-> <<>>, ctx |-> Nil,
          effects |-> <<>>,
          status |-> status, exit |-> FALSE, result |-> Nil]

\* What handleControlMessage does with a payload: the handlers it invokes,
\* the context it hands them, and the outcome.
Dispatch(payload) ==
    LET u == Unmarshal(payload) IN
    IF u.err
    THEN [payload |-> payload, log |-> "parse", handler |-> "none",
          cmd |-> u.cmd, invoked |-> <<>>, ctx |-> Nil,
          effects |-> <<>>,
          status |-> status, exit |-> FALSE, result |-> Nil]
    ELSE IF u.cmd.Command \in DOMAIN receiver.handlers
    THEN LET h == receiver.handlers[u.cmd.Command] IN
         [payload |-> payload, log |-> "result", handler |-> h.type,
          cmd |-> u.cmd, invoked |-> <<h.type>>,
          ctx |-> WithNodeContext(Background, NodeCtx),
          effects |->
              Handle(h, WithNodeContext(Background, NodeCtx), u.cmd).effects,
          status |->
              Handle(h, WithNodeContext(Background, NodeCtx), u.cmd).status,
          exit |->
              Handle(h, WithNodeContext(Background, NodeCtx), u.cmd).exit,
          result |->
              Handle(h, WithNodeContext(Background, NodeCtx), u.cmd).result]
    ELSE [payload |-> payload, log |-> "miss", handler |-> "none",
          cmd |-> u.cmd, invoked |-> <<>>, ctx |-> Nil,
          effects |-> <<>>,
          status |-> status, exit |-> FALSE, result |-> Nil]

\* (r *CommandReceiver) handleControlMessage(client, msg)
HandleControlMessage(payload) ==
    /\ alive[NodeProc] /\ ~Exiting
    /\ receiver # Nil /\ receiver.paho = "connected" /\ receiver.subscribed
    /\ dispatched' = [k \in {"payload", "log", "handler", "cmd", "invoked",
                              "ctx", "effects", "exit", "result"}
                         |-> Dispatch(payload)[k]]
    /\ status' = Dispatch(payload).status
    /\ UNCHANGED <<reg, regErr, currentInstance, instConnected, mqttClient,
                   rcvPc, receiver, hb, loop, cancelled, stops, broker>>
    /\ UNCHANGED <<now, startTime, hbAt, orphan, outbox, hooks, executed,
                   ctxMu>>
    /\ UNCHANGED lockVars

\* The contexts a host can pass to a handler it calls itself: a plain one,
\* or one that carries the receiver's NodeContext.
HostContexts == {Background, WithNodeContext(Background, NodeCtx)}

\* The commands a host can pass to a handler it calls itself (no built-in
\* handler reads the command's name).
HostCommands == {Command("query", id) : id \in RequestIDs}

\* handler.Handle(ctx, cmd) called by the host on a handler it constructed,
\* outside the dispatch of a control message.
HostHandle(handler, ctx, cmd) ==
    /\ alive[NodeProc] /\ ~Exiting
    /\ rcvPc = "done" /\ HasNodeContext
    /\ dispatched' = [payload |-> <<>>, log |-> "direct",
                      handler |-> handler.type, cmd |-> cmd,
                      invoked |-> <<handler.type>>, ctx |-> ctx,
                      effects |-> Handle(handler, ctx, cmd).effects,
                      exit |-> Handle(handler, ctx, cmd).exit,
                      result |-> Handle(handler, ctx, cmd).result]
    /\ status' = Handle(handler, ctx, cmd).status
    /\ UNCHANGED <<reg, regErr, currentInstance, instConnected, mqttClient,
                   rcvPc, receiver, hb, loop, cancelled, stops, broker>>
    /\ UNCHANGED <<now, startTime, hbAt, orphan, outbox, hooks, executed,
                   ctxMu>>
    /\ UNCHANGED lockVars

\* ------------------------------------------------------------- the broker
\* A paho client that loses its connection: onConnectionLost clears the flag.
LostClient(m) ==
    IF m # Nil /\ m.paho = "connected"
    THEN [m EXCEPT !.paho = "lost", !.connected = FALSE]
    ELSE m

LostReceiver(r) ==
    IF r # Nil /\ r.paho = "connected"
    THEN [r EXCEPT !.paho = "lost", !.subscribed = FALSE]
    ELSE r

LostOrphan(o) ==
    IF o # Nil /\ o.paho = "connected" THEN [o EXCEPT !.paho = "lost"] ELSE o

BrokerDown ==
    /\ broker = "up"
    /\ broker' = "down"
    /\ mqttClient' = LostClient(mqttClient)
    /\ receiver' = LostReceiver(receiver)
    /\ orphan' = LostOrphan(orphan)
    /\ UNCHANGED <<reg, regErr, currentInstance, instConnected, rcvPc, hb,
                   loop, cancelled, status, stops>>
    /\ UNCHANGED <<now, startTime, hbAt, outbox, hooks, executed,
                   ctxMu, dispatched>>
    /\ UNCHANGED lockVars

BrokerUp ==
    /\ broker = "down"
    /\ broker' = "up"
    /\ UNCHANGED <<reg, regErr, currentInstance, instConnected, mqttClient,
                   rcvPc, receiver, hb, loop, cancelled, status, stops>>
    /\ UNCHANGED lockVars
    /\ UNCHANGED ctxVars

\* SetAutoReconnect(true): paho reconnects a client that lost its connection
ClientAutoReconnect ==
    /\ alive[NodeProc] /\ broker = "up"
    /\ mqttClient # Nil /\ mqttClient.paho = "lost"
    /\ mqttClient' = [mqttClient EXCEPT !.paho = "connected"]
    /\ UNCHANGED <<reg, regErr, currentInstance, instConnected, rcvPc,
                   receiver, hb, loop, cancelled, status, stops, broker>>
    /\ UNCHANGED lockVars
    /\ UNCHANGED ctxVars

ReceiverAutoReconnect ==
    /\ alive[NodeProc] /\ broker = "up"
    /\ receiver # Nil /\ receiver.paho = "lost"
    /\ receiver' = [receiver EXCEPT !.paho = "connected"]
    /\ UNCHANGED <<reg, regErr, currentInstance, instConnected, mqttClient,
                   rcvPc, hb, loop, cancelled, status, stops, broker>>
    /\ UNCHANGED lockVars
    /\ UNCHANGED ctxVars

\* The client of a replaced receiver reconnects like any other.
OrphanAutoReconnect ==
    /\ alive[NodeProc] /\ broker = "up"
    /\ orphan # Nil /\ orphan.paho = "lost"
    /\ orphan' = [orphan EXCEPT !.paho = "connected"]
    /\ UNCHANGED <<reg, regErr, currentInstance, instConnected, mqttClient,
                   rcvPc, receiver, hb, loop, cancelled, status, stops,
                   broker>>
    /\ UNCHANGED <<now, startTime, hbAt, outbox, hooks, executed, ctxMu,
                   dispatched>>
    /\ UNCHANGED lockVars

\* ------------------------------------------------------- Stop and Shutdown
\* (m *MQTTClient) Disconnect()
Disconnect(m) ==
    IF m.connected THEN [m EXCEPT !.paho = "closed"] ELSE m

\* (r *CommandReceiver) Stop()
ReceiverStop(r) ==
    [r EXCEPT !.cancelled = TRUE,
              !.paho = IF r.paho = "connected" THEN "closed" ELSE r.paho,
              !.subscribed = IF r.paho = "connected" THEN FALSE
                             ELSE r.subscribed,
              !.status = "stopped"]

\* A Stop that calls Disconnect and the receiver's Stop without looking
\* whether the Instance has a client and a receiver: on a nil reference the
\* call panics and Stop does not return.
StopInstanceUnchecked ==
    /\ mqttClient # Nil /\ receiver # Nil
    /\ cancelled' = TRUE
    /\ mqttClient' = Disconnect(mqttClient)
    /\ receiver' = ReceiverStop(receiver)
    /\ IF lock[NodeProc] # Nil THEN Release(NodeProc) ELSE UNCHANGED lockVars
    /\ UNCHANGED ctxVars
    /\ stops' = stops + 1
    /\ UNCHANGED <<reg, regErr, instConnected, rcvPc, hb, loop, status,
                   broker>>

\* (inst *Instance) Stop()
StopInstance ==
    /\ cancelled' = TRUE
    /\ mqttClient' = IF mqttClient # Nil THEN Disconnect(mqttClient)
                     ELSE mqttClient
    /\ receiver' = IF receiver # Nil THEN ReceiverStop(receiver) ELSE receiver
    /\ IF lock[NodeProc] # Nil THEN Release(NodeProc) ELSE UNCHANGED lockVars
    /\ UNCHANGED ctxVars
    /\ stops' = stops + 1
    /\ UNCHANGED <<reg, regErr, instConnected, rcvPc, hb, loop, status,
                   broker>>

Stop ==
    /\ alive[NodeProc] /\ reg = "ok" /\ stops < MaxStops
    /\ StopInstance
    /\ UNCHANGED currentInstance

\* Shutdown()
Shutdown ==
    /\ alive[NodeProc] /\ reg = "ok" /\ stops < MaxStops
    /\ IF currentInstance
       THEN StopInstance /\ currentInstance' = FALSE
       ELSE UNCHANGED vars

\* The node process ends (a crash, or an exit of the host).
NodeExit ==
    /\ Terminate(NodeProc)
    /\ reg' = "exited"
    /\ regErr' = Nil
    /\ currentInstance' = FALSE
    /\ instConnected' = FALSE
    /\ mqttClient' = Nil
    /\ rcvPc' = "none"
    /\ receiver' = Nil
    /\ hb' = "none"
    /\ loop' = "none"
    /\ cancelled' = FALSE
    /\ status' = "none"
    /\ stops' = 0
    /\ startTime' = 0
    /\ hbAt' = 0
    /\ orphan' = Nil
    /\ hooks' = <<>>
    /\ executed' = <<>>
    /\ dispatched' = Nil
    /\ ctxMu' = [holder |-> "none", stuck |-> FALSE]
    /\ UNCHANGED <<broker, now, outbox>>

\* os.Exit(0), called by the stop handler's cancel function: the process
\* ends where it stands.
OsExit == Exiting /\ NodeExit

\* ------------------------------------------------------- specifications
Init == LockInit /\ NodeInit

RivalStep ==
    \/ \E p \in Rivals : AcquireStat(p) /\ UNCHANGED nodeVars
    \/ \E p \in Rivals : AcquireRead(p) /\ UNCHANGED nodeVars
    \/ \E p \in Rivals : AcquireProbe(p) /\ UNCHANGED nodeVars
    \/ \E p \in Rivals : AcquireRemove(p) /\ UNCHANGED nodeVars
    \/ \E p \in Rivals : AcquireCreate(p) /\ UNCHANGED nodeVars
    \/ \E p \in Rivals : AcquireWrite(p) /\ UNCHANGED nodeVars
    \/ \E p \in Rivals : Release(p) /\ UNCHANGED nodeVars
    \/ \E p \in Rivals : Terminate(p) /\ UNCHANGED nodeVars

NodeStep ==
    \/ \E nodeName \in Names, enableFileLock \in BOOLEAN :
          Register(nodeName, enableFileLock)
    \/ RegisterAcquire
    \/ RegisterLocked
    \/ OnConnect
    \/ StartCommandReceiver
    \/ ReceiverStart
    \/ ReceiverOnConnect
    \/ HeartbeatFirst
    \/ HeartbeatExit
    \/ ReconnectTick
    \/ ReconnectExit
    \/ ClientAutoReconnect
    \/ ReceiverAutoReconnect
    \/ HeartbeatTick
    \/ OrphanFirst
    \/ OrphanTick
    \/ OrphanExit
    \/ OrphanAutoReconnect
    \/ ClockTick
    \/ AddShutdownHook
    \/ ExecuteShutdownHooks
    \/ Cancel
    \/ \E payload \in Payloads : HandleControlMessage(payload)
    \/ OsExit
    \/ Stop
    \/ Shutdown
    \/ NodeExit

Next == NodeStep \/ RivalStep \/ BrokerDown \/ BrokerUp

\* The node with its lock, the rival processes and the broker.
Spec == Init /\ [][Next]_vars

\* The lock file alone, every process operating on it.
LockNext ==
    \/ \E p \in Procs : AcquireStat(p) /\ UNCHANGED nodeVars
    \/ \E p \in Procs : AcquireRead(p) /\ UNCHANGED nodeVars
    \/ \E p \in Procs : AcquireProbe(p) /\ UNCHANGED nodeVars
    \/ \E p \in Procs : AcquireRemove(p) /\ UNCHANGED nodeVars
    \/ \E p \in Procs : AcquireCreate(p) /\ UNCHANGED nodeVars
    \/ \E p \in Procs : AcquireWrite(p) /\ UNCHANGED nodeVars
    \/ \E p \in Procs : Release(p) /\ UNCHANGED nodeVars
    \/ \E p \in Procs : IsLocked(p) /\ UNCHANGED nodeVars
    \/ \E p \in Procs : Terminate(p) /\ UNCHANGED nodeVars

LockSpec == Init /\ [][LockNext]_vars

\* The lock operations of the node process and its rivals, started on a lock
\* path that may hold something left behind.
ProbeNext ==
    \/ \E p \in Contenders : AcquireStat(p) /\ UNCHANGED nodeVars
    \/ \E p \in Contenders : AcquireRead(p) /\ UNCHANGED nodeVars
    \/ \E p \in Contenders : AcquireProbe(p) /\ UNCHANGED nodeVars
    \/ \E p \in Contenders : AcquireRemove(p) /\ UNCHANGED nodeVars
    \/ \E p \in Contenders : AcquireCreate(p) /\ UNCHANGED nodeVars
    \/ \E p \in Contenders : AcquireWrite(p) /\ UNCHANGED nodeVars
    \/ \E p \in Contenders : Release(p) /\ UNCHANGED nodeVars
    \/ \E p \in Contenders : IsLocked(p) /\ UNCHANGED nodeVars
    \/ \E p \in Contenders : Terminate(p) /\ UNCHANGED nodeVars

ProbeStart == ProbeInit /\ NodeInit

ProbeSpec == ProbeStart /\ [][ProbeNext]_vars

\* RegisterWithConfig from its call to its return, with the rival processes
\* on the lock and the broker coming and going.
RegisterNext ==
    \/ \E nodeName \in Names, enableFileLock \in BOOLEAN :
          Register(nodeName, enableFileLock)
    \/ RegisterAcquire
    \/ RegisterLocked
    \/ RivalStep
    \/ BrokerDown
    \/ BrokerUp

RegisterSpec == Init /\ [][RegisterNext]_vars

\* The node started with the lock enabled, its subsystems coming up in any
\* order, Stop and Shutdown, with the rival processes on the lock.
StopNext ==
    \/ Register(AppName, TRUE)
    \/ RegisterAcquire
    \/ RegisterLocked
    \/ OnConnect
    \/ StartCommandReceiver
    \/ ReceiverStart
    \/ HeartbeatFirst
    \/ Stop
    \/ Shutdown
    \/ RivalStep
    \/ BrokerUp

StopSpec == Init /\ [][StopNext]_vars

\* The node with its command receiver: control messages of every shape
\* arriving while the receiver is subscribed, Stop called by the host, and
\* the rival processes on the lock.
CommandNext ==
    \/ \E enableFileLock \in BOOLEAN : Register(AppName, enableFileLock)
    \/ RegisterAcquire
    \/ RegisterLocked
    \/ StartCommandReceiver
    \/ ReceiverStart
    \/ ReceiverOnConnect
    \/ ReceiverAutoReconnect
    \/ \E payload \in Payloads : HandleControlMessage(payload)
    \/ OsExit
    \/ Stop
    \/ RivalStep
    \/ BrokerDown
    \/ BrokerUp

CommandSpec == Init /\ [][CommandNext]_vars

\* The node (no lock) and the lifecycle context of its receiver: the
\* receiver started and started again by the reconnect loop, the operations
\* of the NodeContext, control messages, and Stop.
LifecycleNext ==
    \/ Register(AppName, FALSE)
    \/ StartCommandReceiver
    \/ ReceiverStart
    \/ ReceiverOnConnect
    \/ ReconnectTick
    \/ ReceiverAutoReconnect
    \/ AddShutdownHook
    \/ ExecuteShutdownHooks
    \/ Cancel
    \/ \E payload \in Payloads : HandleControlMessage(payload)
    \/ OsExit
    \/ Stop
    \/ Shutdown
    \/ BrokerDown
    \/ BrokerUp

LifecycleSpec == Init /\ [][LifecycleNext]_vars

\* The dispatch engine of the node's receiver: control messages of every
\* shape arriving while it is subscribed, its Status moved by the operations
\* of the NodeContext, the broker coming and going.
DispatchNext ==
    \/ Register(AppName, FALSE)
    \/ StartCommandReceiver
    \/ ReceiverStart
    \/ ReceiverOnConnect
    \/ ReceiverAutoReconnect
    \/ Cancel
    \/ ExecuteShutdownHooks
    \/ \E payload \in Payloads : HandleControlMessage(payload)
    \/ OsExit
    \/ BrokerDown
    \/ BrokerUp

DispatchSpec == Init /\ [][DispatchNext]_vars

\* A receiver the host program builds and fills itself: any sequence of
\* RegisterHandler calls with the built-in handlers, then Start and control
\* messages that carry request ids.
HandlerNext ==
    \/ HostNewReceiver
    \/ \E command \in HostNames, handler \in HostHandlers :
           HostRegisterHandler(command, handler)
    \/ ReceiverStart
    \/ ReceiverOnConnect
    \/ \E payload \in RequestPayloads : HandleControlMessage(payload)
    \/ \E handler \in HostHandlers, ctx \in HostContexts,
          cmd \in HostCommands : HostHandle(handler, ctx, cmd)
    \/ OsExit
    \/ BrokerUp

HandlerSpec == Init /\ [][HandlerNext]_vars

\* The shutdown hooks of the NodeContext of a started receiver: hooks
\* added, the hooks executed any number of times, the Status moved by
\* Cancel and by the dispatch of control messages.
HookNext ==
    \/ HostNewReceiver
    \/ ReceiverStart
    \/ ReceiverOnConnect
    \/ AddShutdownHook
    \/ ExecuteShutdownHooks
    \/ Cancel
    \/ \E payload \in Payloads : HandleControlMessage(payload)
    \/ BrokerDown
    \/ BrokerUp

HookSpec == Init /\ [][HookNext]_vars

\* The mutex of the NodeContext: hooks of both kinds added, the hooks
\* executed, a new NodeContext (with a new mutex) at each Start of the
\* receiver.
MutexNext ==
    \/ HostNewReceiver
    \/ ReceiverStart
    \/ ReceiverOnConnect
    \/ AddShutdownHook
    \/ AddReentrantHook
    \/ ExecuteShutdownHooks
    \/ Cancel
    \/ \E payload \in Payloads : HandleControlMessage(payload)
    \/ BrokerDown
    \/ BrokerUp

MutexSpec == Init /\ [][MutexNext]_vars

\* The heartbeats of the node's receiver over the periods of the ticker:
\* Publish calls that succeed or fail, the broker coming and going, Stop.
HeartbeatNext ==
    \/ Register(AppName, FALSE)
    \/ StartCommandReceiver
    \/ ReceiverStart
    \/ ReceiverAutoReconnect
    \/ HeartbeatFirst
    \/ HeartbeatTick
    \/ HeartbeatExit
    \/ ClockTick
    \/ Stop
    \/ BrokerDown
    \/ BrokerUp

HeartbeatSpec == Init /\ [][HeartbeatNext]_vars

\* The heartbeats of a node that is never stopped, with the reconnect loop,
\* which starts a receiver again, and the heartbeat loop of the receiver that
\* was replaced.
ReconnectNext ==
    \/ Register(AppName, FALSE)
    \/ OnConnect
    \/ ClientAutoReconnect
    \/ StartCommandReceiver
    \/ ReceiverStart
    \/ ReceiverAutoReconnect
    \/ HeartbeatFirst
    \/ HeartbeatTick
    \/ ReconnectTick
    \/ OrphanFirst
    \/ OrphanTick
    \/ OrphanAutoReconnect
    \/ ClockTick
    \/ BrokerDown
    \/ BrokerUp

ReconnectSpec == Init /\ [][ReconnectNext]_vars

\* The node started by Register (default configuration, no lock), its
\* goroutines and the broker; timer ticks, goroutines and callbacks that
\* stay ready are eventually run.
LiveNext ==
    \/ Register(AppName, FALSE)
    \/ OnConnect
    \/ StartCommandReceiver
    \/ ReceiverStart
    \/ ReceiverOnConnect
    \/ HeartbeatFirst
    \/ HeartbeatExit
    \/ ReconnectTick
    \/ ReconnectExit
    \/ ClientAutoReconnect
    \/ ReceiverAutoReconnect
    \/ Stop
    \/ BrokerDown
    \/ BrokerUp

LiveSpec ==
    /\ Init
    /\ [][LiveNext]_vars
    /\ WF_vars(ReconnectTick)
    /\ WF_vars(OnConnect)
    /\ WF_vars(StartCommandReceiver)
    /\ WF_vars(ReceiverStart)
    /\ WF_vars(ReceiverOnConnect)
    /\ WF_vars(ClientAutoReconnect)
    /\ WF_vars(ReceiverAutoReconnect)

\* The loops of a node that is stopped at some point: the reconnect loop, the
\* heartbeat loop of the receiver and that of a replaced receiver. A loop
\* whose context is done is eventually scheduled, and a goroutine that was
\* spawned eventually runs.
ExitNext ==
    \/ Register(AppName, FALSE)
    \/ StartCommandReceiver
    \/ ReceiverStart
    \/ HeartbeatFirst
    \/ HeartbeatExit
    \/ ReconnectTick
    \/ ReconnectExit
    \/ OrphanFirst
    \/ OrphanExit
    \/ Stop
    \/ BrokerDown
    \/ BrokerUp

ExitSpec ==
    /\ Init
    /\ [][ExitNext]_vars
    /\ WF_vars(StartCommandReceiver)
    /\ WF_vars(ReceiverStart)
    /\ WF_vars(HeartbeatFirst)
    /\ WF_vars(HeartbeatExit)
    /\ WF_vars(ReconnectExit)
    /\ WF_vars(OrphanFirst)
    /\ WF_vars(OrphanExit)

\* A node started with or without the lock, with the broker up or down, and
\* stopped at any point of its start.
PartialNext ==
    \/ \E enableFileLock \in BOOLEAN : Register(AppName, enableFileLock)
    \/ RegisterAcquire
    \/ RegisterLocked
    \/ OnConnect
    \/ StartCommandReceiver
    \/ ReceiverStart
    \/ ReconnectTick
    \/ Stop
    \/ BrokerDown
    \/ BrokerUp

PartialSpec == Init /\ [][PartialNext]_vars

\* =================================================================== claims

\* The record at the lock path is the one p created and holds p's PID.
RecordOf(p) ==
    /\ lockFile.exists
    /\ lockFile.ino = p
    /\ lockFile.content = FormatInt(Getpid(p))

\* q takes a step of AcquireApplicationLock.
AcquireStepOf(q) == alive'[q] /\ pc'[q] # pc[q]

\* q's AcquireApplicationLock returns in this step.
AcquireReturns(q) == InAcquire(q) /\ pc'[q] = "idle"

\* C1: at most one live process holds a lock handle for the application name
\* at any instant, whatever the interleaving of the steps of Acquire.
C1_MutualExclusion ==
    \A p, q \in Procs : (Holds(p) /\ Holds(q)) => p = q

\* C2: while a live process holds the lock and its record with its PID is in
\* place, no step of an Acquire by another process changes the record or
\* hands that process a handle.
C2_BusyWhileHeld ==
    [][\A p, q \in Procs :
            (p # q /\ Holds(p) /\ RecordOf(p) /\ AcquireStepOf(q))
                => (lockFile' = lockFile /\ ret'[q] # AcquireOk)]_vars

\* C3 as stated: when the holder terminated without Release, the next
\* Acquire by a live process, run with no other process operating on the
\* lock, returns a handle and leaves a record with the new owner's PID.
C3_StaleReclaimedAnywhere ==
    [][\A p \in Procs :
            (solo[p] /\ AcquireReturns(p))
                => (ret'[p] = AcquireOk /\ RecordOf(p)')]_vars

\* C3 amended: the same where the platform has a process-existence probe
\* (every GOOS but windows).
C3_StaleReclaimed ==
    [][\A p \in Procs :
            (goos # "windows" /\ solo[p] /\ AcquireReturns(p))
                => (ret'[p] = AcquireOk /\ RecordOf(p)')]_vars

C3_Witness ==
    \E p \in Procs :
        /\ goos # "windows" /\ solo[p] /\ pc[p] = "idle"
        /\ ret[p] = AcquireOk /\ RecordOf(p)
        /\ \E d \in Procs : ~alive[d]

\* C4: Release on a nil handle or on a handle that was already released
\* deletes or modifies no lock record.
C4_ReleaseIdempotent ==
    [][\A p \in Procs :
            (Release(p) /\ (lock[p] = Nil \/ lock[p].File = "closed"))
                => lockFile' = lockFile]_vars

\* C5: after the holder called Release, and until some process creates a
\* record again, IsLocked returns (not locked, 0).
C5_ReleaseThenIsLocked ==
    [][\A q \in Procs :
            (sinceRelease /\ IsLocked(q))
                => isLockedRet' = IsLockedRet(FALSE, 0)]_vars

C5_Witness ==
    \E p \in Procs :
        /\ sinceRelease
        /\ lock[p] # Nil /\ lock[p].File = "closed"
        /\ isLockedRet = IsLockedRet(FALSE, 0)

\* C6: RegisterWithConfig returns an error exactly when the name is empty or
\* the lock is enabled and AcquireLock came back busy; when the connect
\* fails it returns nil and the reconnect loop is running.
C6_StartErrors ==
    [][/\ \A n \in Names, e \in BOOLEAN :
            Register(n, e) =>
                /\ (reg' = "error") <=> (n = "")
                /\ (reg' = "error")
                      => regErr' = Errorf("nodeName is required", <<>>)
                /\ (reg' = "ok" /\ broker = "down")
                      => (regErr' = Nil /\ loop' = "running")
       /\ RegisterLocked =>
                /\ (reg' = "error") <=> (ret[NodeProc] = AcquireBusy)
                /\ (reg' = "error") => regErr' = AlreadyRunningError(AppName)
                /\ (reg' = "ok" /\ broker = "down")
                      => (regErr' = Nil /\ loop' = "running")]_vars

C6_Witness ==
    /\ reg = "ok" /\ regErr = Nil
    /\ mqttClient = Nil /\ loop = "running"
    /\ Holds(NodeProc)

\* The live process whose PID the lock record holds.
OwnerPids ==
    IF lockFile.exists /\ Atoi(lockFile.content).ok
          /\ IsProcessRunning(Atoi(lockFile.content).val)
    THEN {Atoi(lockFile.content).val}
    ELSE {}

\* C7: the error RegisterWithConfig returns for a busy lock carries the PID
\* of the process that owns the lock.
C7_ErrorCarriesOwnerPid ==
    [][(RegisterLocked /\ reg' = "error")
          => \A pid \in OwnerPids :
                \E i \in DOMAIN regErr'.args :
                    regErr'.args[i].verb = "%d" /\ regErr'.args[i].val = pid]_vars

\* C8: when the initial connect failed (the reconnect loop runs) and the
\* broker is reachable from some point on with no cancellation, the instance
\* is eventually connected with the control topic subscribed and the
\* heartbeat loop running.
C8_EventuallyConnected ==
    <>[](loop = "running" /\ broker = "up" /\ ~cancelled)
        => <>(/\ IsConnected
              /\ receiver # Nil /\ receiver.subscribed
              /\ hb \in {"delay", "loop"})

\* The same with the broker unreachable until it becomes reachable for good:
\* no outage falls between the reconnect and the start of the receiver.
C8_FirstReachabilityStays ==
    (/\ [](broker = "up" => [](broker = "up"))
     /\ <>[](loop = "running" /\ broker = "up" /\ ~cancelled))
        => <>(/\ IsConnected
              /\ receiver # Nil /\ receiver.subscribed
              /\ hb \in {"delay", "loop"})

\* C9: after a successful initial connect there is no state in which the
\* instance is marked connected, the command receiver and the heartbeat
\* are not running, and nothing is left that would start them.
C9_NoStuckConnected ==
    ~(/\ reg = "ok" /\ instConnected /\ ~cancelled
      /\ loop = "none"
      /\ rcvPc = "done" /\ receiver # Nil /\ receiver.status = "error"
      /\ hb = "none" /\ status # "running")

\* C10: a second call of Stop on the instance changes nothing: no lock
\* record, not the connection state, not the Status.
C10_StopIdempotent ==
    [][(stops >= 1 /\ Stop)
          => (/\ lockFile' = lockFile
              /\ mqttClient' = mqttClient
              /\ IsConnected' = IsConnected
              /\ status' = status)]_vars

\* C11: when Stop or Shutdown has stopped an Instance that was started with
\* the lock enabled and holds its handle, no record is at the lock path and
\* the cancellation has fired, whatever subsystems were started.
C11_StopReleasesAndCancels ==
    [][((Stop \/ Shutdown) /\ Holds(NodeProc))
            => (~lockFile'.exists /\ cancelled')]_vars

C11_Witness ==
    /\ stops = 1 /\ cancelled
    /\ lock[NodeProc] # Nil /\ lock[NodeProc].File = "closed"
    /\ ~lockFile.exists
    /\ receiver # Nil /\ receiver.status = "stopped" /\ hb = "loop"
    /\ mqttClient # Nil /\ ~ClientIsConnected(mqttClient)

\* C12: a stop command received by a registered Instance that holds the lock
\* sets the Status to stopping, and the process does not end before it has
\* removed its lock record.
C12_StopCommandRemovesRecord ==
    [][/\ (\E payload \in Payloads :
              (HandleControlMessage(payload) /\ Holds(NodeProc)
                    /\ Unmarshal(payload) = [err |-> FALSE,
                                             cmd |-> Command("stop", "")])
                  => status' = "stopping")
       /\ (OsExit => ~RecordOf(NodeProc))]_vars

\* C13: when Stop has completed on an Instance whose lifecycle context
\* exists, the Status is stopped.
C13_StopSetsStopped ==
    [][((Stop \/ Shutdown) /\ status # "none") => status' = "stopped"]_vars

\* C14: Stop runs every shutdown hook registered on the lifecycle context
\* exactly once, the last registered first.
C14_StopRunsHooks ==
    [][((Stop \/ Shutdown) /\ HasNodeContext /\ executed = <<>>)
            => executed' = Reverse(hooks)]_vars

\* The place of a Status on the line starting, running, stopping, stopped.
StatusRank(st) ==
    CASE st = "starting" -> 1
      [] st = "running" -> 2
      [] st = "stopping" -> 3
      [] st = "stopped" -> 4
      [] OTHER -> 0

\* C15: while the process lives the Status never steps back on the line
\* starting, running, stopping, stopped, except from error to running: a
\* stopped Status stays, a stopping one never returns to running or starting.
C15_StatusMonotonic ==
    [][(status # "none" /\ status' # "none")
            => \/ StatusRank(status') >= StatusRank(status)
               \/ (status = "error" /\ status' = "running")]_vars

\* C16: whenever a status command is dispatched, the result carries the
\* Status the lifecycle context has at the moment of the call and is marked
\* success.
C16_StatusHandlerReturnsStatus ==
    [][\A payload \in Payloads :
            (/\ HandleControlMessage(payload)
             /\ Unmarshal(payload) = [err |-> FALSE,
                                      cmd |-> Command("status", "")])
                => /\ dispatched'.handler = "StatusHandler"
                   /\ dispatched'.result = CommandResult(TRUE, status, "")
                   /\ status' = status]_vars

C16_Witness ==
    /\ dispatched # Nil /\ dispatched.handler = "StatusHandler"
    /\ dispatched.result = CommandResult(TRUE, "stopping", "")
    /\ status = "stopping"

\* The engine takes control messages: the receiver is connected and has the
\* control topic subscribed, and the process is not on its way out.
Dispatching ==
    /\ alive[NodeProc] /\ ~Exiting
    /\ receiver # Nil /\ receiver.paho = "connected" /\ receiver.subscribed

\* While the engine takes control messages, a message of any shape can be
\* dispatched.
C17_EngineTakesMessages ==
    Dispatching
        => \A payload \in Payloads : ENABLED HandleControlMessage(payload)

\* C17: a control message whose payload cannot be decoded invokes no handler
\* and yields no result, leaves the receiver with its handler registry and
\* the Status as they were, and leaves the engine taking messages as before.
C17_UndecodableDropped ==
    [][\A payload \in Payloads :
            (HandleControlMessage(payload) /\ Unmarshal(payload).err)
                => /\ dispatched'.handler = "none"
                   /\ dispatched'.result = Nil
                   /\ receiver' = receiver
                   /\ receiver'.handlers = receiver.handlers
                   /\ status' = status
                   /\ Dispatching']_vars

C17_Witness ==
    /\ dispatched # Nil /\ dispatched.log = "parse"
    /\ dispatched.payload = <<"{", "command", ":", "status">>
    /\ Dispatching /\ status = "running"
    /\ DOMAIN receiver.handlers = {"stop", "status", "query"}

\* C18: a well-formed control message whose command has no entry in the
\* handler registry invokes no handler, yields no result and publishes
\* nothing, and changes neither the registry nor the Status.
C18_UnknownCommandSilent ==
    [][\A payload \in Payloads :
            (/\ HandleControlMessage(payload)
             /\ ~Unmarshal(payload).err
             /\ Unmarshal(payload).cmd.Command \notin DOMAIN receiver.handlers)
                => /\ dispatched'.handler = "none"
                   /\ dispatched'.result = Nil
                   /\ outbox' = outbox
                   /\ receiver'.handlers = receiver.handlers
                   /\ status' = status]_vars

C18_Witness ==
    /\ dispatched # Nil /\ dispatched.log = "miss"
    /\ dispatched.payload = <<"{", "command", ":", "restart", "}">>
    /\ Dispatching /\ status = "running"
    /\ DOMAIN receiver.handlers = {"stop", "status", "query"}

\* C19: of the heartbeats the Instance publishes, each comes in a later
\* period than the one before (never two for the same tick) and carries a
\* strictly greater uptime, also when the Instance has reconnected.
C19_HeartbeatsIncrease ==
    [][(outbox.heartbeat # Nil /\ outbox'.heartbeat # outbox.heartbeat)
            => /\ outbox'.heartbeat.at > outbox.heartbeat.at
               /\ outbox'.heartbeat.uptime > outbox.heartbeat.uptime]_vars

\* C20: every tick of the heartbeat loop makes at most one Publish, of a
\* message built at that tick, and leaves the loop running; when the client
\* is not connected or the Publish fails, nothing is published for the tick,
\* and the tick after it does not send the message that was lost: it makes
\* its own single attempt.
C20_FailedPublishNotRetried ==
    [][HeartbeatTick
          => /\ hb' = "loop" /\ hbAt' = now
             /\ outbox'.attempt # Nil
                    => outbox'.attempt.msg = Heartbeat(startTime)
             /\ (outbox'.attempt = Nil \/ ~outbox'.attempt.ok)
                    => outbox'.heartbeat = outbox.heartbeat
             /\ outbox'.heartbeat # outbox.heartbeat
                    => outbox'.heartbeat = Heartbeat(startTime)]_vars

C20_Witness ==
    /\ hb = "loop" /\ now = 2 /\ hbAt = 2
    /\ outbox.attempt # Nil /\ ~outbox.attempt.ok
    /\ outbox.attempt.msg = [uptime |-> 2, at |-> 2]
    /\ outbox.heartbeat = [uptime |-> 0, at |-> 0]

\* C21: once the cancellation has fired, the Instance begins no connect
\* attempt, no subscription of the control topic, no dispatch of a command
\* and no publish of a heartbeat.
C21_NoNewWorkAfterCancel ==
    [][cancelled
          => /\ ~ReceiverStart
             /\ ~ReceiverOnConnect
             /\ ~(ReconnectTick /\ mqttClient' # mqttClient)
             /\ \A payload \in Payloads : ~HandleControlMessage(payload)
             /\ outbox'.attempt = outbox.attempt]_vars

\* No loop of the Instance is running and none is about to be started.
NoLoopRunning ==
    /\ loop # "running"
    /\ hb \notin {"delay", "loop"}
    /\ orphan # Nil => orphan.hb = "exited"
    /\ rcvPc \notin {"spawned", "created"}

\* The reconnect loop and the heartbeat loops return only when the
\* cancellation has fired.
C22_ExitOnlyOnCancel ==
    [][/\ (loop = "running" /\ loop' = "exited") => cancelled
       /\ (hb = "loop" /\ hb' = "exited") => cancelled
       /\ (orphan # Nil /\ orphan' # Nil
               /\ orphan.hb = "loop" /\ orphan'.hb = "exited") => cancelled]_vars

\* C22: the reconnect loop and the heartbeat loop exit only on the
\* cancellation, and once the cancellation has fired every one of them has
\* eventually exited for good (each goroutine being scheduled, each connect
\* and publish returning).
C22_LoopsExit ==
    cancelled ~> []NoLoopRunning

C22_Witness ==
    /\ cancelled /\ stops = 1
    /\ loop = "exited" /\ hb = "exited"
    /\ orphan # Nil /\ orphan.hb = "exited"
    /\ NoLoopRunning

\* C23: in every state of a registered Instance, whichever of its subsystems
\* were started, a call of Stop completes: it returns, with no panic.
C23_StopCompletes ==
    (alive[NodeProc] /\ reg = "ok" /\ stops < MaxStops) => ENABLED Stop

C23_Witness ==
    /\ stops = 1 /\ cancelled
    /\ mqttClient = Nil /\ receiver = Nil
    /\ lock[NodeProc] = Nil /\ loop = "running"

\* ------------------------------------------------------- lock discipline
\* An access of a field of the Instance or of its receiver: the field, whether
\* it is a write, and whether it is synchronised: inst.mu is held (Lock or
\* RLock) around it, or it is a Load or Store of an atomic.Value.
Access(field, write, locked) ==
    [field |-> field, write |-> write, locked |-> locked]

\* Instance.Stop holds no lock: it reads inst.mqttClient and inst.receiver,
\* and the receiver's Stop stores the receiver's status.
StopAccesses ==
    {Access("mqttClient", FALSE, FALSE),
     Access("receiver", FALSE, FALSE),
     Access("receiverStatus", TRUE, FALSE)}

\* connectMQTT stores the client and the connection flag under inst.mu.
ConnectMQTTAccesses ==
    {Access("mqttClient", TRUE, TRUE),
     Access("connected", TRUE, TRUE)}

\* A tick of startReconnectLoop: the flag read under RLock, the client read
\* outside the lock, the flag stored under Lock, then connectMQTT.
ReconnectTickAccesses ==
    {Access("connected", FALSE, TRUE),
     Access("mqttClient", FALSE, FALSE),
     Access("connected", TRUE, TRUE)} \union ConnectMQTTAccesses

\* startCommandReceiver stores inst.receiver under inst.mu; Start stores the
\* receiver's status without a lock; the Status of the NodeContext is an
\* atomic.Value. (RegisterHandler stores into the handlers map of the new
\* receiver before Start: no message is dispatched on that map yet.)
StartCommandReceiverAccesses ==
    {Access("receiver", TRUE, TRUE),
     Access("receiverStatus", TRUE, FALSE),
     Access("status", TRUE, TRUE)}

\* handleControlMessage reads the handlers map without a lock; the status
\* handler loads the Status of the NodeContext.
DispatchAccesses ==
    {Access("handlers", FALSE, FALSE),
     Access("status", FALSE, TRUE)}

Activities == {"Stop", "reconnectTick", "startCommandReceiver", "dispatch"}

Accesses(a) ==
    CASE a = "Stop" -> StopAccesses
      [] a = "reconnectTick" -> ReconnectTickAccesses
      [] a = "startCommandReceiver" -> StartCommandReceiverAccesses
      [] a = "dispatch" -> DispatchAccesses

\* The activities that can be running in the current state: Stop whenever the
\* host may call it, a tick while the reconnect loop runs, the goroutine of
\* startCommandReceiver from its spawn to the return of Start, a dispatch
\* while the control topic is subscribed.
Active ==
    {a \in Activities :
        CASE a = "Stop" -> ENABLED Stop
          [] a = "reconnectTick" -> ENABLED ReconnectTick
          [] a = "startCommandReceiver" ->
                 ENABLED StartCommandReceiver \/ ENABLED ReceiverStart
          [] a = "dispatch" -> Dispatching}

\* Two accesses of one field, at least one a write, with no common lock.
Conflict(x, y) ==
    /\ x.field = y.field
    /\ x.write \/ y.write
    /\ ~(x.locked /\ y.locked)

DataRace(a, b) ==
    \E x \in Accesses(a), y \in Accesses(b) : Conflict(x, y)

\* C24: no two activities of an Instance that can run at the same time
\* access the same field, one of them writing, without a common lock.
C24_LockDiscipline ==
    \A a, b \in Active : a # b => ~DataRace(a, b)

\* C25: IsLocked leaves the lock path as it found it, whatever is there: no
\* record, the record of a live or of a terminated owner, unparsable content,
\* something unreadable.
C25_IsLockedReadOnly ==
    [][\A p \in Procs : IsLocked(p) => lockFile' = lockFile]_vars

C25_Witness ==
    /\ isLockedRet = IsLockedRet(FALSE, 0)
    /\ StaleRecord /\ goos = "linux"

\* IsLocked has been called on each kind of content of the lock path.
C25_WitnessUnreadable ==
    isLockedRet = IsLockedRet(TRUE, 0) /\ lockFile = Unreadable(TRUE)

C25_WitnessGarbage ==
    isLockedRet = IsLockedRet(FALSE, 0) /\ lockFile = Garbage

C25_WitnessLive ==
    \E p \in Procs :
        isLockedRet = IsLockedRet(TRUE, Getpid(p)) /\ Holds(p) /\ RecordOf(p)

\* What the AcquireApplicationLock of p returns when it runs on from where it
\* stands with no other process operating on the lock path.
AcquireFrom(p) ==
    LET conv == IF lockFile.exists /\ lockFile.readable
                THEN Atoi(lockFile.content)
                ELSE [ok |-> FALSE, val |-> 0]
        afterRemove == IF OsRemove(p).exists THEN AcquireBusy ELSE AcquireOk
        afterRead == IF conv.ok /\ IsProcessRunning(conv.val)
                     THEN AcquireBusy ELSE afterRemove
    IN  CASE pc[p] = "idle" ->
                 IF lockFile.exists THEN afterRead ELSE AcquireOk
          [] pc[p] = "read" -> afterRead
          [] pc[p] = "probe" ->
                 IF IsProcessRunning(pidRead[p]) THEN AcquireBusy
                 ELSE afterRemove
          [] pc[p] = "remove" -> afterRemove
          [] pc[p] = "create" ->
                 IF lockFile.exists THEN AcquireBusy ELSE AcquireOk
          [] pc[p] = "write" -> AcquireOk
          [] OTHER -> None

\* No process is inside AcquireApplicationLock.
Quiescent == \A q \in Procs : ~InAcquire(q)

\* Every step of an AcquireApplicationLock keeps what AcquireFrom foretold,
\* and its return is what AcquireFrom foretold.
C26_AcquireFromIsAcquire ==
    [][\A p \in Procs :
            (alive[p] /\ AcquireStepOf(p))
                => IF pc'[p] = "idle" THEN ret'[p] = AcquireFrom(p)
                   ELSE AcquireFrom(p)' = AcquireFrom(p)]_vars

\* C26: whatever is at the lock path, IsLocked reports locked exactly when an
\* AcquireApplicationLock run in that state would return busy.
C26_IsLockedIsAcquireBusy ==
    \A p \in Procs :
        (Quiescent /\ alive[p] /\ ~Holds(p))
            => (IsLockedNow.locked <=> AcquireFrom(p) = AcquireBusy)

\* The same on every lock path that can be read.
C26_ReadableAgree ==
    \A p \in Procs :
        (Quiescent /\ alive[p] /\ ~Holds(p)
              /\ (lockFile.exists => lockFile.readable))
            => (IsLockedNow.locked <=> AcquireFrom(p) = AcquireBusy)

\* What is at the lock path cannot be read, or is not the text of a PID.
Corrupt ==
    /\ lockFile.exists
    /\ ~lockFile.readable \/ ~Atoi(lockFile.content).ok

\* C27: when what is at the lock path cannot be read or parsed, an
\* AcquireApplicationLock that no other process disturbs removes it, creates
\* the record and returns the handle, and the record holds the caller's PID.
C27_CorruptReclaimed ==
    [][\A p \in Procs :
            /\ (Quiescent /\ alive[p] /\ ~Holds(p) /\ Corrupt)
                  => AcquireFrom(p) = AcquireOk
            /\ (AcquireWrite(p) /\ lockFile.exists /\ lockFile.ino = p)
                  => (ret'[p] = AcquireOk /\ RecordOf(p)')]_vars

\* The same for everything that os.Remove can remove.
C27_RemovableReclaimed ==
    [][\A p \in Procs :
            /\ (Quiescent /\ alive[p] /\ ~Holds(p) /\ Corrupt
                    /\ lockFile.removable)
                  => AcquireFrom(p) = AcquireOk
            /\ (AcquireWrite(p) /\ lockFile.exists /\ lockFile.ino = p)
                  => (ret'[p] = AcquireOk /\ RecordOf(p)')]_vars

\* The Instance is marked connected and the session of its client is gone.
SessionLost ==
    /\ alive[NodeProc] /\ reg = "ok"
    /\ instConnected
    /\ mqttClient # Nil /\ mqttClient.paho = "lost"

\* C28: whether its initial connect succeeded or failed, an Instance that is
\* marked connected while its session is gone and that is not cancelled is
\* later marked disconnected by a reconnect tick, which connects afresh
\* (unless it is cancelled first).
C28_LostSessionNoticed ==
    (SessionLost /\ ~cancelled)
        ~> (~instConnected \/ cancelled
              \/ (mqttClient # Nil /\ mqttClient.paho = "connected"))

\* The same for an Instance whose initial connect failed: its reconnect loop
\* runs.
C28_LoopNoticesLostSession ==
    (SessionLost /\ ~cancelled /\ loop = "running")
        ~> (~instConnected \/ cancelled
              \/ (mqttClient # Nil /\ mqttClient.paho = "connected"))

C30_HitInvokesHandler ==
    [][\A payload \in Payloads :
            (/\ HandleControlMessage(payload)
             /\ ~Unmarshal(payload).err
             /\ Unmarshal(payload).cmd.Command \in DOMAIN receiver.handlers)
                => /\ dispatched'.invoked =
                        <<receiver.handlers[Unmarshal(payload).cmd.Command].type>>
                   /\ GetNodeContextFromContext(dispatched'.ctx) # Nil
                   /\ GetNodeContextFromContext(dispatched'.ctx) = NodeCtx]_vars

C30_Witness ==
    /\ dispatched # Nil
    /\ dispatched.payload = <<"{", "command", ":", "query", "}">>
    /\ dispatched.invoked = <<"QueryHandler">>
    /\ GetNodeContextFromContext(dispatched.ctx) = NodeCtx /\ NodeCtx # Nil
    /\ dispatched.result = CommandResult(TRUE, FormatNodeInfo, "")

\* C31: whenever the dispatch invokes a stop or a restart handler, the
\* handler first sets Status to stopping, then signals the cancellation of
\* its lifecycle (the cancel function is the last thing it calls), and
\* returns a success CommandResult: once it has returned, the cancellation has
\* been signalled.
C31_StopRestartSignalCancel ==
    [][\A payload \in Payloads \cup RequestPayloads :
          (/\ HandleControlMessage(payload)
           /\ Dispatch(payload).invoked # <<>>
           /\ Dispatch(payload).invoked[1] \in {"StopHandler",
                                                "RestartHandler"})
              => /\ status' = "stopping"
                 /\ dispatched'.effects # <<>>
                 /\ dispatched'.effects[1] = "SetStatus(stopping)"
                 /\ dispatched'.effects[Len(dispatched'.effects)]
                        = "cancelFunc"
                 /\ dispatched'.result # Nil
                 /\ dispatched'.result.Success]_vars

\* C32: every result a built-in handler has returned, from the dispatch of
\* a control message or from a direct call, on its success and on its failure
\* outcome, carries the request id of the command the handler was given, the
\* empty one included.
C32_ResultEchoesRequestID ==
    (dispatched # Nil /\ dispatched.invoked # <<>>
        /\ dispatched.result # Nil)
        => dispatched.result.RequestID = dispatched.cmd.RequestID

\* A query handler has answered with its failure outcome a command whose
\* request id is empty.
C32_Witness ==
    /\ dispatched # Nil
    /\ dispatched.invoked = <<"QueryHandler">>
    /\ dispatched.result # Nil
    /\ ~dispatched.result.Success
    /\ dispatched.cmd.RequestID = ""
    /\ dispatched.result.RequestID = ""

\* A stop handler has answered a control message that carries a request id.
C32_WitnessStop ==
    /\ dispatched # Nil
    /\ dispatched.log = "result"
    /\ dispatched.invoked = <<"StopHandler">>
    /\ dispatched.result # Nil
    /\ dispatched.cmd.RequestID = "r2"
    /\ dispatched.result.RequestID = "r2"

\* C33: each registered hook runs exactly once however often
\* ExecuteShutdownHooks is called (the hooks are numbered in the order of
\* their AddShutdownHook calls; no number occurs twice among the hooks that
\* have run), and the hooks of one call run in the reverse of that order.
C33_HooksRunOnce ==
    \A i, j \in 1..Len(executed) :
        i < j => executed[i] > executed[j]

\* C34: a RegisterHandler call puts its handler under its name, replacing the
\* one the name had, and touches no other name (the registry holds one entry
\* per name registered so far); a dispatched command invokes the handler the
\* registry holds under its name, that is the one of the last
\* RegisterHandler call for that name.
C34_LastRegistrationWins ==
    [][/\ \A c \in HostNames, h \in HostHandlers :
             HostRegisterHandler(c, h)
                 => /\ DOMAIN receiver'.handlers
                           = DOMAIN receiver.handlers \cup {c}
                    /\ receiver'.handlers[c] = h
                    /\ \A n \in DOMAIN receiver.handlers \ {c} :
                           receiver'.handlers[n] = receiver.handlers[n]
       /\ (/\ dispatched' # dispatched /\ dispatched' # Nil
           /\ dispatched'.log = "result")
             => /\ dispatched'.cmd.Command \in DOMAIN receiver.handlers
                /\ LET h == receiver.handlers[dispatched'.cmd.Command]
                       out == Handle(h, dispatched'.ctx, dispatched'.cmd)
                   IN  /\ dispatched'.invoked = <<h.type>>
                       /\ dispatched'.effects = out.effects
                       /\ dispatched'.result = out.result]_vars

\* Two RegisterHandler calls were made for the name stop, the registry holds
\* one entry, the stop handler with the host's cancel function, and a stop
\* command has invoked it.
C34_Witness ==
    /\ receiver # Nil /\ receiver.registered = 2
    /\ DOMAIN receiver.handlers = {"stop"}
    /\ receiver.handlers["stop"] = NewStopHandler("cancel")
    /\ dispatched # Nil /\ dispatched.log = "result"
    /\ dispatched.cmd.Command = "stop"
    /\ dispatched.effects = <<"SetStatus(stopping)", "cancelFunc">>

\* C35: while a live process holds the handle it obtained for the name (its
\* PID written, Release not yet called), the record at the lock path exists,
\* is the file that process created and holds its PID: no step of another
\* process has deleted or overwritten it.
C35_HeldRecordStays ==
    \A p \in Procs :
        Holds(p) => /\ lockFile.exists
                    /\ lockFile.ino = p
                    /\ lockFile.content = FormatInt(Getpid(p))

\* C36: the Instance never has two running heartbeat loops nor two command
\* receivers whose clients are connected: a receiver that a reconnect
\* replaced has been stopped, its loop ended and its client disconnected.
C36_OneReceiverOneLoop ==
    (orphan # Nil /\ receiver # Nil)
        => /\ ~(/\ orphan.hb \in {"delay", "loop"}
                /\ hb \in {"delay", "loop"})
           /\ ~(/\ orphan.paho = "connected"
                /\ receiver.paho = "connected")

\* C37: once the Instance's lifecycle context exists, no step (a reconnect
\* included) resets its start time or moves its Status back to starting, and
\* the uptime of each heartbeat is at least that of the heartbeat before.
C37_ReconnectKeepsLifecycle ==
    [][/\ status # "none" => startTime' = startTime
       /\ status \notin {"none", "starting"} => status' # "starting"
       /\ (outbox.heartbeat # Nil /\ outbox'.heartbeat # Nil)
             => outbox'.heartbeat.uptime >= outbox.heartbeat.uptime]_vars

\* C38: when RegisterWithConfig has returned an error, the process holds no
\* lock handle, no record at the lock path is a file it created, there is no
\* current instance, and no client, receiver, reconnect loop or heartbeat
\* loop exists.
C38_FailedStartLeavesNothing ==
    reg = "error"
        => /\ lock[NodeProc] = Nil
           /\ ~(lockFile.exists /\ lockFile.ino = NodeProc)
           /\ ~currentInstance
           /\ mqttClient = Nil /\ ~instConnected
           /\ receiver = Nil /\ rcvPc = "none"
           /\ loop = "none" /\ hb = "none"

\* RegisterWithConfig has returned the busy-lock error while a rival holds
\* the lock and its record is at the lock path.
C38_Witness ==
    /\ reg = "error" /\ regErr = AlreadyRunningError(AppName)
    /\ ret[NodeProc] = AcquireBusy
    /\ \E q \in Rivals : Holds(q) /\ lockFile.exists /\ lockFile.ino = q

\* RegisterWithConfig has returned the error for the empty name.
C38_WitnessNoName ==
    reg = "error" /\ regErr = Errorf("nodeName is required", <<>>)

\* C39: when Shutdown returns after stopping the current instance, there is
\* no current instance, the cancellation that ends the reconnect loop and the
\* heartbeat loops has been signalled, no receiver is still about to start,
\* and no client of the Instance (the transport client, the receiver's, a
\* replaced receiver's) is connected.
C39_ShutdownLeavesNothing ==
    [][(Shutdown /\ currentInstance)
          => /\ ~currentInstance'
             /\ cancelled'
             /\ rcvPc' \notin {"spawned", "created"}
             /\ mqttClient' # Nil => mqttClient'.paho # "connected"
             /\ receiver' # Nil => receiver'.paho # "connected"
             /\ orphan' # Nil => orphan'.paho # "connected"]_vars

\* C40: no call waits forever for the mutex of the lifecycle context: a call
\* that holds it returns and unlocks it, also when a shutdown hook itself
\* calls AddShutdownHook.
C40_NoThreadWaitsForever == ~ctxMu.stuck

====
